---- MODULE Spec2Model ----
(***************************************************************************)
(* risk-sim: the discrete-event Monte Carlo kernel (simulateOnce), its     *)
(* event queue (MinHeap) and the bookkeeping the run result is built from; *)
(* the settlement simulator (simulateSettlement); the run aggregator; and  *)
(* the orchestration of a run set, sequential (runSimulation) and over the *)
(* worker pool (useSimulationPool, worker.ts).                             *)
(*                                                                         *)
(* Time and money are small naturals (exact arithmetic: floating-point     *)
(* rounding is not modelled).  Every rng() draw is a nondeterministic      *)
(* choice over a small set of values the sampler can return (samples are   *)
(* >= 0).  The per-bucket time series is an output no branch reads and is  *)
(* left out.                                                               *)
(***************************************************************************)
EXTENDS Integers, Sequences, FiniteSets, Bags, TLC

\* ------------------------------------------------------------------ bounds
MaxPurchases == 2
MaxHeapPushes == 5
MaxHeapTime == 2

\* ------------------------------------------------------- program constants
DaySec == 86400

Users == {0, 1}

\* ---------------------------------------------------------------- events
NoSettlement == [confirmed |-> FALSE, timeSec |-> 0, retries |-> 0, gaveUp |-> FALSE, present |-> FALSE]

NoEvent ==
  [timeSec |-> 0, type |-> "undefined", userId |-> 0, txnId |-> 0, amount |-> 0,
   relatedAmount |-> 0, settlement |-> NoSettlement, isFraud |-> FALSE]

MkEvent(t, ty, u, id, amt, rel, st, fr) ==
  [timeSec |-> t, type |-> ty, userId |-> u, txnId |-> id, amount |-> amt,
   relatedAmount |-> rel, settlement |-> st, isFraud |-> fr]

\* ------------------------------------------------------------ MinHeap (queue)
\* The code's array is 0-based; At/Swap keep its indices.
At(data, i) == data[i + 1]

Swap(data, i, j) == [data EXCEPT ![i + 1] = data[j + 1], ![j + 1] = data[i + 1]]

RECURSIVE BubbleUp(_, _)
BubbleUp(data, index) ==
  IF index > 0
    THEN LET parent == (index - 1) \div 2 IN
         IF At(data, parent).timeSec <= At(data, index).timeSec
           THEN data
           ELSE BubbleUp(Swap(data, parent, index), parent)
    ELSE data

RECURSIVE BubbleDownLeftOnly(_, _)
BubbleDownLeftOnly(data, index) ==
  LET length == Len(data)
      left == 2 * index + 1
      smallest == IF left < length /\ At(data, left).timeSec < At(data, index).timeSec
                    THEN left ELSE index
  IN IF smallest = index THEN data
     ELSE BubbleDownLeftOnly(Swap(data, smallest, index), smallest)

RECURSIVE BubbleDown(_, _)
BubbleDown(data, index) ==
  LET length == Len(data)
      left == 2 * index + 1
      right == 2 * index + 2
      s1 == IF left < length /\ At(data, left).timeSec < At(data, index).timeSec
              THEN left ELSE index
      smallest == IF right < length /\ At(data, right).timeSec < At(data, s1).timeSec
                    THEN right ELSE s1
  IN IF smallest = index THEN data
     ELSE BubbleDown(Swap(data, smallest, index), smallest)

MinHeapPush(data, item) == BubbleUp(Append(data, item), Len(data))

\* pop(): [top, data]; top is NoEvent (undefined) on an empty queue.
MinHeapPop(data) ==
  IF Len(data) = 0
    THEN [top |-> NoEvent, data |-> data]
    ELSE LET top == data[1]
             last == data[Len(data)]
             rest == SubSeq(data, 1, Len(data) - 1)
         IN [top |-> top,
             data |-> IF Len(rest) > 0 THEN BubbleDown([rest EXCEPT ![1] = last], 0) ELSE rest]

MinHeapSize(data) == Len(data)

\* ------------------------------------------------------------------ state
VARIABLES
  pc,                  \* "boot" (timeline generation), "loop" (event loop), "done"; "heap" for the queue alone
  spec,                \* the ScenarioSpec of the run (read-only)
  events,              \* MinHeap.data
  current,             \* the event returned by the last pop()
  popCount,            \* number of events popped so far
  txnId, bootUser, bootT,   \* simulateOnce: txnId, u, t of the bootstrap loops
  initialBalances,     \* balances as drawn at bootstrap
  balances, holdTotals, holdCounts, holdByTxn, authContext,
  userDailySpend, userTimeslotSpend,
  approvals, declines, timeouts, authTimes, settlementTimes, retries,
  exposureEvents, exposureDurations, pendingHoldSamples,
  ctr,                 \* the scalar counters of simulateOnce
  hist,                \* history of the run, by transaction (observation only)
  stl,                 \* simulateSettlement: its locals and its return value
  smp,                 \* the sampling helpers: the call in progress and its return value
  hardwareConcurrency, \* navigator.hardwareConcurrency (0: undefined)
  workersRef,          \* useSimulationPool: workersRef.current (worker ids)
  workers,             \* every Worker created so far, by id
  batches,             \* every call of the pool's run(), with its closure
  jobs,                \* every handleRun invocation (App.tsx)
  exec,                \* the executions of runSimulation / runSimulationWithProgress
  lastRng              \* the rng stream last used by a run (observation only)

vars ==
  <<pc, spec, events, current, popCount, txnId, bootUser, bootT, initialBalances,
    balances, holdTotals, holdCounts, holdByTxn, authContext,
    userDailySpend, userTimeslotSpend,
    approvals, declines, timeouts, authTimes, settlementTimes, retries,
    exposureEvents, exposureDurations, pendingHoldSamples, ctr, hist,
    stl, smp, hardwareConcurrency, workersRef, workers, batches, jobs, exec, lastRng>>

\* The state of the orchestration and of the settlement simulator.
orchVars == <<hardwareConcurrency, workersRef, workers, batches, jobs, exec, lastRng>>

\* ----------------------------------------------------------- Map helpers
\* The elements of an array.
Range(f) == { f[i] : i \in DOMAIN f }

EmptyMap == [k \in {} |-> 0]

MapHas(m, k) == k \in DOMAIN m

MapSet(m, k, v) == [x \in (DOMAIN m) \cup {k} |-> IF x = k THEN v ELSE m[x]]

MapDelete(m, k) == [x \in (DOMAIN m) \ {k} |-> m[x]]

MapGetOr(m, k, d) == IF k \in DOMAIN m THEN m[k] ELSE d

\* ------------------------------------------------------------- scenarios
\* One small numeric scenario in which every comparison of the kernel can go
\* both ways, under the flag combinations below.
BaseSpec ==
  [mode |-> "offchain_hold", users |-> 2, horizonSec |-> 1, purchaseRate |-> 1,
   authTimeoutSec |-> 1, settlementSlaSec |-> 1, maxSettleWindowSec |-> 2,
   holdsEnabled |-> FALSE, holdDurationSec |-> 2, allowIncremental |-> FALSE,
   preAuthEnabled |-> FALSE, fraudEnabled |-> FALSE, spendLimitsEnabled |-> FALSE,
   perTransactionLimit |-> 3, perUserDailyLimit |-> 3, perUserTimeslotLimit |-> 3,
   timeslotMinutes |-> 60, seed |-> << >>, monteCarloRuns |-> 1]

ScenarioSpecs ==
  { [BaseSpec EXCEPT !.mode = "wait_on_chain"],
    [BaseSpec EXCEPT !.mode = "wait_on_chain", !.spendLimitsEnabled = TRUE,
                     !.perTransactionLimit = 1],
    [BaseSpec EXCEPT !.spendLimitsEnabled = TRUE],
    [BaseSpec EXCEPT !.holdsEnabled = TRUE, !.fraudEnabled = TRUE],
    [BaseSpec EXCEPT !.holdsEnabled = TRUE, !.preAuthEnabled = TRUE],
    [BaseSpec EXCEPT !.holdsEnabled = TRUE, !.preAuthEnabled = TRUE,
                     !.allowIncremental = TRUE, !.spendLimitsEnabled = TRUE],
    [BaseSpec EXCEPT !.holdsEnabled = TRUE, !.preAuthEnabled = TRUE,
                     !.allowIncremental = TRUE, !.spendLimitsEnabled = TRUE,
                     !.perUserDailyLimit = 1],
    [BaseSpec EXCEPT !.mode = "wait_on_chain", !.spendLimitsEnabled = TRUE,
                     !.authTimeoutSec = 3, !.horizonSec = 60, !.timeslotMinutes = 1,
                     !.perUserDailyLimit = 4],
    [BaseSpec EXCEPT !.purchaseRate = 0],
    [BaseSpec EXCEPT !.mode = "wait_on_chain", !.fraudEnabled = TRUE] }

\* ------------------------------------------------------------ rng draws
BalanceDraws == {0, 2}

AmountDraws == {1, 2}

InterarrivalDraws == {0, 1, 59}

LegSecs == {0, 1}

ProcessingSecs == {0}

FraudMultiplierDraws == {2}

CompletionDelayDraws == {1}

\* sampleNetworkLegs, combined mode: t1 = t4 = half the round trip, t2 = t3 = 0
SampleNetworkLegs == { [t1 |-> a, t2 |-> 0, t3 |-> 0, t4 |-> a] : a \in LegSecs }

\* simulateSettlement's return values: confirmed at any elapsed time, or given up
SettlementResults(sp) ==
  { [confirmed |-> TRUE, timeSec |-> t, retries |-> IF t = 0 THEN 0 ELSE 1,
     gaveUp |-> FALSE, present |-> TRUE] :
      t \in {0, sp.settlementSlaSec + 1} }
  \cup
  { [confirmed |-> FALSE, timeSec |-> t, retries |-> 1, gaveUp |-> TRUE, present |-> TRUE] :
      t \in {sp.maxSettleWindowSec + 1} }

\* ---------------------------------------------------------------- Init
ZeroCtr ==
  [overspendPrevented |-> 0, preAuthMismatchCount |-> 0, preAuthCount |-> 0,
   incrementalAuthSuccessCount |-> 0, incrementalAuthCount |-> 0,
   fraudAttempts |-> 0, fraudApprovals |-> 0, fraudExposureTotal |-> 0,
   fraudApprovedAmount |-> 0, fraudLossTotal |-> 0, limitDeclines |-> 0,
   totalSpent |-> 0, insufficientFundsSkipped |-> 0]

\* debits: txnId of every balance debit, in order; settled: one record per
\* settlement event resolved; released: one record per hold release;
\* exposureTxn: the txnId of each entry of exposureEvents;
\* approvalTime: issuer-done time of each approval;
\* preSkipped / autoDeclined: purchases dropped before / at the fraud screen;
\* skipped: one record per purchase dropped for insufficient funds, with the
\* amount asked and the user's balance and hold total at that time;
\* pushes, pops: queue operations; lastPopEmpty: the last pop() found the
\* queue empty; decision: the amount and authTime that the last off-chain
\* purchase decision (lines 383-412) was taken on; enqueued: how many times
\* a handler pushed an event of each (txnId, type); dequeued: how many times
\* the loop popped one.
NoDecision == [txnId |-> -1, amount |-> 0, authTime |-> 0]

ZeroHist ==
  [debits |-> << >>, settled |-> << >>, released |-> << >>, exposureTxn |-> << >>,
   approvalTime |-> EmptyMap, preSkipped |-> 0, autoDeclined |-> 0, skipped |-> << >>,
   pushes |-> 0, pops |-> 0, lastPopEmpty |-> FALSE, decision |-> NoDecision,
   enqueued |-> EmptyMap, dequeued |-> EmptyMap]

InitCommon ==
  /\ events = << >>
  /\ current = NoEvent
  /\ popCount = 0
  /\ txnId = 0
  /\ bootUser = 0
  /\ bootT = 0
  /\ holdTotals = [u \in Users |-> 0]
  /\ holdCounts = [u \in Users |-> 0]
  /\ holdByTxn = EmptyMap
  /\ authContext = EmptyMap
  /\ userDailySpend = EmptyMap
  /\ userTimeslotSpend = EmptyMap
  /\ approvals = << >>
  /\ declines = << >>
  /\ timeouts = << >>
  /\ authTimes = << >>
  /\ settlementTimes = << >>
  /\ retries = << >>
  /\ exposureEvents = << >>
  /\ exposureDurations = << >>
  /\ pendingHoldSamples = << >>
  /\ ctr = ZeroCtr
  /\ hist = ZeroHist

\* simulateSettlement not called.
NoStl ==
  [pc |-> "idle", stellar |-> << >>, outage |-> << >>, startTimeSec |-> 0,
   inOutage |-> FALSE, inclusionProb |-> 0, timeSec |-> 0, retries |-> 0,
   attempts |-> 0, result |-> NoSettlement]

\* No sampling helper called.
NoSmp ==
  [pc |-> "idle", fn |-> "", dist |-> << >>, mean |-> 0, p95 |-> 0, mu |-> 0, sigma |-> 0,
   shape |-> 0, scale |-> 0, factor |-> 0, attempts |-> 0, result |-> 0]

\* No run set started: no worker, no batch, no execution.
OrchIdle ==
  /\ workersRef = << >>
  /\ workers = << >>
  /\ batches = << >>
  /\ jobs = << >>
  /\ exec = << >>
  /\ lastRng = 0

Init ==
  /\ pc = "boot"
  /\ spec \in ScenarioSpecs
  /\ balances \in [Users -> BalanceDraws]
  /\ initialBalances = balances
  /\ InitCommon
  /\ stl = NoStl
  /\ smp = NoSmp
  /\ hardwareConcurrency = 0
  /\ OrchIdle

\* The run state as one record, so that a handler reads as the code does:
\* a sequence of updates of the state it was given.
St ==
  [events |-> events, balances |-> balances, holdTotals |-> holdTotals,
   holdCounts |-> holdCounts, holdByTxn |-> holdByTxn, authContext |-> authContext,
   userDailySpend |-> userDailySpend, userTimeslotSpend |-> userTimeslotSpend,
   approvals |-> approvals, declines |-> declines, timeouts |-> timeouts,
   authTimes |-> authTimes, settlementTimes |-> settlementTimes, retries |-> retries,
   exposureEvents |-> exposureEvents, exposureDurations |-> exposureDurations,
   pendingHoldSamples |-> pendingHoldSamples, ctr |-> ctr, hist |-> hist]

Set(s) ==
  /\ events' = s.events
  /\ balances' = s.balances
  /\ holdTotals' = s.holdTotals
  /\ holdCounts' = s.holdCounts
  /\ holdByTxn' = s.holdByTxn
  /\ authContext' = s.authContext
  /\ userDailySpend' = s.userDailySpend
  /\ userTimeslotSpend' = s.userTimeslotSpend
  /\ approvals' = s.approvals
  /\ declines' = s.declines
  /\ timeouts' = s.timeouts
  /\ authTimes' = s.authTimes
  /\ settlementTimes' = s.settlementTimes
  /\ retries' = s.retries
  /\ exposureEvents' = s.exposureEvents
  /\ exposureDurations' = s.exposureDurations
  /\ pendingHoldSamples' = s.pendingHoldSamples
  /\ ctr' = s.ctr
  /\ hist' = s.hist

runVars ==
  <<balances, holdTotals, holdCounts, holdByTxn, authContext,
    userDailySpend, userTimeslotSpend,
    approvals, declines, timeouts, authTimes, settlementTimes, retries,
    exposureEvents, exposureDurations, pendingHoldSamples, ctr>>

\* Observation: one more event of the item's (txnId, type).
Counted(m, item) == MapSet(m, <<item.txnId, item.type>>, MapGetOr(m, <<item.txnId, item.type>>, 0) + 1)

\* events.push(item) on the run state
Push(s, item) ==
  [s EXCEPT !.events = MinHeapPush(@, item), !.hist.enqueued = Counted(@, item)]

\* ------------------------------------------------- population bootstrap
\* A time beyond every horizon.
Infinity == 1000000

\* sampleInterarrival (lines 130-135); draw is the value of -Math.log(u) / rate
sampleInterarrival(lambdaPerSec, draw) == IF lambdaPerSec <= 0 THEN Infinity ELSE draw

\* One pass of the inner while loop that pushes a purchase (t <= horizonSec).
PushPurchase ==
  /\ pc = "boot"
  /\ bootT < spec.horizonSec
  /\ txnId < MaxPurchases
  /\ \E draw \in InterarrivalDraws, amount \in AmountDraws :
       LET inter == sampleInterarrival(spec.purchaseRate, draw) IN
       /\ bootT + inter <= spec.horizonSec
       /\ events' = MinHeapPush(events,
            MkEvent(bootT + inter, "purchase", bootUser, txnId, amount, 0, NoSettlement, FALSE))
       /\ bootT' = bootT + inter
  /\ txnId' = txnId + 1
  /\ UNCHANGED <<pc, spec, current, popCount, bootUser, initialBalances, runVars, hist>>
  /\ UNCHANGED <<stl, smp, orchVars>>

\* The inner loop ends (t >= horizonSec, or t + inter > horizonSec): next user,
\* and after the last user the event loop starts.
NextUser ==
  /\ pc = "boot"
  /\ bootUser' = bootUser + 1
  /\ bootT' = 0
  /\ pc' = IF bootUser + 1 = spec.users THEN "loop" ELSE "boot"
  /\ UNCHANGED <<spec, events, current, popCount, txnId, initialBalances, runVars, hist>>
  /\ UNCHANGED <<stl, smp, orchVars>>

\* ---------------------------------------------------- spend-limit helpers
Max(a, b) == IF a >= b THEN a ELSE b

Min(a, b) == IF a <= b THEN a ELSE b

dayIndex(timeSec) == timeSec \div DaySec

timeslotIndex(timeSec) == timeSec \div (Max(1, spec.timeslotMinutes) * 60)

getUserDailySpend(s, userId, day) == MapGetOr(s.userDailySpend, <<userId, day>>, 0)

getUserTimeslotSpend(s, userId, slot) == MapGetOr(s.userTimeslotSpend, <<userId, slot>>, 0)

canApproveWithLimits(s, userId, amount, timeSec) ==
  IF ~spec.spendLimitsEnabled THEN TRUE
  ELSE IF spec.perTransactionLimit > 0 /\ amount > spec.perTransactionLimit THEN FALSE
  ELSE IF /\ spec.perUserDailyLimit > 0
          /\ getUserDailySpend(s, userId, dayIndex(timeSec)) + amount > spec.perUserDailyLimit
         THEN FALSE
  ELSE IF /\ spec.perUserTimeslotLimit > 0
          /\ getUserTimeslotSpend(s, userId, timeslotIndex(timeSec)) + amount
               > spec.perUserTimeslotLimit
         THEN FALSE
  ELSE TRUE

applySpendLimits(s, userId, amount, timeSec) ==
  IF ~spec.spendLimitsEnabled THEN s
  ELSE LET day == dayIndex(timeSec)
           slot == timeslotIndex(timeSec)
       IN [s EXCEPT
             !.userDailySpend =
                MapSet(@, <<userId, day>>, getUserDailySpend(s, userId, day) + amount),
             !.userTimeslotSpend =
                MapSet(@, <<userId, slot>>, getUserTimeslotSpend(s, userId, slot) + amount)]

\* Mutation: the available balance ignores the outstanding holds.
availableBalanceNoHolds(s, userId) == s.balances[userId]

\* balances[userId] - holdTotals[userId]
availableBalance(s, userId) == s.balances[userId] - s.holdTotals[userId]

\* Mutation: the settlement event is scheduled at the elapsed time alone.
SettlementEventTimeRelative(issuerDone, settlement) == settlement.timeSec

\* issuerDone + settlement.timeSec: when the settlement event fires
SettlementEventTime(issuerDone, settlement) == issuerDone + settlement.timeSec

\* Mutation: a timeout is not recorded.
PushTimeoutDropped(s, id) == s

\* Mutation: the debit is logged but the balance is left as it was.
DebitNotApplied(s, userId, id, amount) == [s EXCEPT !.hist.debits = Append(@, id)]

\* Observation: the purchase of `amount` by userId is dropped for lack of funds.
LogSkipped(s, userId, id, amount) ==
  [s EXCEPT !.hist.skipped =
     Append(@, [txnId |-> id, amount |-> amount, balance |-> s.balances[userId],
                holdTotal |-> s.holdTotals[userId]])]

\* Line 397: the unencumbered balance would have covered the purchase.
OverspendPrevented(s, userId, amount) == s.balances[userId] >= amount

\* approvals.push / declines.push / timeouts.push
PushApproval(s, id) == [s EXCEPT !.approvals = Append(@, id)]

PushDecline(s, id) == [s EXCEPT !.declines = Append(@, id)]

PushTimeout(s, id) == [s EXCEPT !.timeouts = Append(@, id)]

\* balances[userId] -= amount
Debit(s, userId, id, amount) ==
  [s EXCEPT !.balances[userId] = @ - amount, !.hist.debits = Append(@, id)]

\* ------------------------------------------------------ purchase handler
\* The time a hold placed at approvalTime expires.
HoldExpiryTime(approvalTime) == approvalTime + spec.holdDurationSec

\* if (spec.holds.enabled) { ... }: place the hold and schedule its expiry.
PlaceHold(s, event, amount, isFraud, approvalTime) ==
  IF ~spec.holdsEnabled THEN s
  ELSE LET userId == event.userId
           s1 == [s EXCEPT !.holdTotals[userId] = @ + amount,
                           !.holdCounts[userId] = @ + 1]
           s2 == [s1 EXCEPT !.pendingHoldSamples = Append(@, s1.holdCounts[userId])]
           s3 == Push(s2, MkEvent(HoldExpiryTime(approvalTime), "hold_expiry", userId,
                                  event.txnId, amount, 0, NoSettlement, isFraud))
       IN [s3 EXCEPT !.holdByTxn =
             MapSet(@, event.txnId,
                    [userId |-> userId, amount |-> amount, approvalTime |-> approvalTime])]

FinalAmountDraws(amount) == { a \in {amount - 1, amount + 1} : a > 0 }

\* Mutation: with pre-authorization the purchase schedules its settlement as
\* well as its completion.
ScheduleAfterApprovalBoth(s, event, amount, isFraud, issuerDone) ==
  { Push(IF spec.preAuthEnabled
           THEN Push(s, MkEvent(event.timeSec + completionDelaySec, "completion",
                                event.userId, event.txnId, amount, amount, NoSettlement,
                                isFraud))
           ELSE s,
         MkEvent(SettlementEventTime(issuerDone, settlement), "settlement", event.userId,
                 event.txnId, amount, 0, settlement, isFraud)) :
      completionDelaySec \in CompletionDelayDraws, settlement \in SettlementResults(spec) }

\* if (spec.preAuth.enabled) { completion } else { settlement }
ScheduleAfterApproval(s, event, amount, isFraud, issuerDone) ==
  IF spec.preAuthEnabled
    THEN { Push([s EXCEPT !.ctr.preAuthCount = @ + 1,
                          !.ctr.preAuthMismatchCount =
                             IF 20 * (IF finalAmount >= amount THEN finalAmount - amount
                                      ELSE amount - finalAmount) > amount
                               THEN @ + 1 ELSE @],
                MkEvent(event.timeSec + completionDelaySec, "completion", event.userId,
                        event.txnId, finalAmount, amount, NoSettlement, isFraud)) :
             completionDelaySec \in CompletionDelayDraws,
             finalAmount \in FinalAmountDraws(amount) }
    ELSE { Push(s, MkEvent(SettlementEventTime(issuerDone, settlement), "settlement", event.userId,
                           event.txnId, amount, 0, settlement, isFraud)) :
             settlement \in SettlementResults(spec) }

\* Lines 403-463: the approval of an off-chain-hold purchase.
ApprovePurchase(s, event, amount, isFraud, issuerDone, authTime) ==
  LET userId == event.userId
      s1 == [PushApproval(s, event.txnId) EXCEPT
                      !.ctr.fraudApprovals = IF isFraud THEN @ + 1 ELSE @,
                      !.authTimes = Append(@, authTime),
                      !.hist.approvalTime = MapSet(@, event.txnId, issuerDone)]
      s2 == applySpendLimits(s1, userId, amount, event.timeSec)
      s3 == [s2 EXCEPT !.ctr.totalSpent = @ + amount,
                       !.ctr.fraudApprovedAmount = IF isFraud THEN @ + amount ELSE @,
                       !.ctr.fraudLossTotal = IF isFraud THEN @ + amount ELSE @]
      s4 == PlaceHold(s3, event, amount, isFraud, issuerDone)
  IN ScheduleAfterApproval(s4, event, amount, isFraud, issuerDone)

\* Observation: the off-chain decision on `amount` and `authTime` is reached.
LogDecision(s, id, amount, authTime) ==
  [s EXCEPT !.hist.decision = [txnId |-> id, amount |-> amount, authTime |-> authTime]]

\* Mutation: the spend limits are checked before the timeout.
OffchainPurchaseLimitsFirst(s, event, amount, isFraud, issuerDone, authTime) ==
  LET userId == event.userId IN
  IF ~canApproveWithLimits(s, userId, amount, event.timeSec)
    THEN { PushDecline([s EXCEPT !.ctr.limitDeclines = @ + 1], event.txnId) }
  ELSE IF authTime > spec.authTimeoutSec
    THEN { PushTimeout(s, event.txnId) }
  ELSE IF availableBalance(s, userId) < amount
    THEN { [LogSkipped(s, userId, event.txnId, amount) EXCEPT
                     !.ctr.overspendPrevented =
                        IF OverspendPrevented(s, userId, amount) THEN @ + 1 ELSE @,
                     !.ctr.insufficientFundsSkipped = @ + 1] }
  ELSE ApprovePurchase(s, event, amount, isFraud, issuerDone, authTime)

\* Lines 384-463: the off-chain-hold decision, in the code's order.
OffchainPurchase(s, event, amount, isFraud, issuerDone, authTime) ==
  LET userId == event.userId IN
  IF authTime > spec.authTimeoutSec
    THEN { PushTimeout(s, event.txnId) }
  ELSE IF ~canApproveWithLimits(s, userId, amount, event.timeSec)
    THEN { PushDecline([s EXCEPT !.ctr.limitDeclines = @ + 1], event.txnId) }
  ELSE IF availableBalance(s, userId) < amount
    THEN { [LogSkipped(s, userId, event.txnId, amount) EXCEPT
                     !.ctr.overspendPrevented =
                        IF OverspendPrevented(s, userId, amount) THEN @ + 1 ELSE @,
                     !.ctr.insufficientFundsSkipped = @ + 1] }
  ELSE ApprovePurchase(s, event, amount, isFraud, issuerDone, authTime)

\* Lines 364-382: wait-on-chain defers the decision to the settlement event.
WaitOnChainPurchase(s, event, amount, isFraud, issuerDone, legs) ==
  { Push([s EXCEPT !.authContext =
            MapSet(@, event.txnId,
                   [requestTime |-> event.timeSec, legsOut |-> legs.t3 + legs.t4,
                    issuerDone |-> issuerDone, amount |-> amount, isFraud |-> isFraud])],
         MkEvent(SettlementEventTime(issuerDone, settlement), "settlement", event.userId,
                 event.txnId, amount, 0, settlement, isFraud)) :
      settlement \in SettlementResults(spec) }

\* Lines 359-464: latency draws, then the mode's branch.
PurchaseLatencyStage(s, event, amount, isFraud) ==
  UNION { LET issuerDone == event.timeSec + legs.t1 + legs.t2 + processingSec
              authTime == legs.t1 + legs.t2 + processingSec + legs.t3 + legs.t4
          IN IF spec.mode = "wait_on_chain"
               THEN WaitOnChainPurchase(s, event, amount, isFraud, issuerDone, legs)
               ELSE OffchainPurchase(LogDecision(s, event.txnId, amount, authTime), event,
                                     amount, isFraud, issuerDone, authTime) :
          legs \in SampleNetworkLegs, processingSec \in ProcessingSecs }

\* Mutation: an auto-declined attempt is processed further (no `continue`).
PurchaseFraudStageNoContinue(s, event, isFraud) ==
  IF ~isFraud THEN PurchaseLatencyStage(s, event, event.amount, FALSE)
  ELSE LET s1 == [s EXCEPT !.ctr.fraudAttempts = @ + 1] IN
       UNION { PurchaseLatencyStage(
                 IF autoDecline
                   THEN PushDecline([s1 EXCEPT !.hist.autoDeclined = @ + 1], event.txnId)
                   ELSE s1,
                 event, event.amount * multiplier, TRUE) :
               multiplier \in FraudMultiplierDraws, autoDecline \in BOOLEAN }

\* Lines 343-358: the fraud screen.
PurchaseFraudStage(s, event, isFraud) ==
  IF ~isFraud THEN PurchaseLatencyStage(s, event, event.amount, FALSE)
  ELSE LET s1 == [s EXCEPT !.ctr.fraudAttempts = @ + 1] IN
       UNION { IF autoDecline
                 THEN { PushDecline([s1 EXCEPT !.hist.autoDeclined = @ + 1], event.txnId) }
                 ELSE PurchaseLatencyStage(s1, event, event.amount * multiplier, TRUE) :
               multiplier \in FraudMultiplierDraws, autoDecline \in BOOLEAN }

\* Lines 336-465: every state the purchase handler can leave, from state s
\* (the event already popped).
PurchaseOutcomes(s, event) ==
  IF availableBalance(s, event.userId) <= 0
    THEN { [LogSkipped(s, event.userId, event.txnId, event.amount) EXCEPT
              !.hist.preSkipped = @ + 1] }
    ELSE UNION { PurchaseFraudStage(s, event, isFraud) :
                 isFraud \in IF spec.fraudEnabled THEN BOOLEAN ELSE {FALSE} }

\* ---------------------------------------------------- completion handler
\* Lines 472-486: the incremental authorization of a positive delta.
IncrementalAuth(s, userId, delta, timeSec) ==
  LET s1 == [s EXCEPT !.ctr.incrementalAuthCount = @ + 1]
      s2 == IF ~canApproveWithLimits(s1, userId, delta, timeSec)
              THEN [s1 EXCEPT !.ctr.limitDeclines = @ + 1]
              ELSE applySpendLimits(s1, userId, delta, timeSec)
  IN IF availableBalance(s2, userId) >= delta
       THEN LET s3 == [s2 EXCEPT !.ctr.incrementalAuthSuccessCount = @ + 1,
                                 !.holdTotals[userId] = @ + delta,
                                 !.holdCounts[userId] = @ + 1]
            IN [s3 EXCEPT !.pendingHoldSamples = Append(@, s3.holdCounts[userId])]
       ELSE s2

\* Lines 467-500.
CompletionOutcomes(s, event) ==
  LET userId == event.userId
      finalAmount == event.amount
      initialAmount == event.relatedAmount
      delta == finalAmount - initialAmount
      s1 == IF delta > 0 /\ spec.allowIncremental
              THEN IncrementalAuth(s, userId, delta, event.timeSec)
              ELSE s
  IN { Push(s1, MkEvent(SettlementEventTime(event.timeSec + legs.t1 + legs.t2 + processingSec,
                                            settlement),
                        "settlement", userId, event.txnId, finalAmount, 0, settlement,
                        event.isFraud)) :
         legs \in SampleNetworkLegs, processingSec \in ProcessingSecs,
         settlement \in SettlementResults(spec) }

\* --------------------------------------------------- hold_expiry handler
\* Mutation: the expired hold stays in holdByTxn.
ExpireDeleteForgotten(s, id) == s

\* holdByTxn.delete(event.txnId) of the hold_expiry handler
ExpireDelete(s, id) == [s EXCEPT !.holdByTxn = MapDelete(@, id)]

\* Mutation: the expiry handler schedules the same expiry again.
HoldExpiryOutcomeRequeued(s, event) ==
  Push(s, [event EXCEPT !.timeSec = @ + spec.holdDurationSec])

\* Lines 502-510.
HoldExpiryOutcome(s, event) ==
  IF MapHas(s.holdByTxn, event.txnId)
    THEN LET hold == s.holdByTxn[event.txnId]
             s1 == [s EXCEPT !.holdTotals[hold.userId] = @ - hold.amount,
                             !.holdCounts[hold.userId] = Max(0, @ - 1)]
             s2 == [s1 EXCEPT !.pendingHoldSamples = Append(@, s1.holdCounts[hold.userId]),
                              !.hist.released =
                                 Append(@, [txnId |-> event.txnId, by |-> "hold_expiry"])]
         IN ExpireDelete(s2, event.txnId)
    ELSE s

\* ---------------------------------------------------- settlement handler
\* Mutation: the debit is not conditioned on the balance.
BalanceCoversUnchecked(s, userId, amount) == TRUE

\* Line 537: the balance covers the amount.
BalanceCovers(s, userId, amount) == s.balances[userId] >= amount

\* Mutation: the spend is recorded at the time of the settlement event.
SpendTimeAtSettlement(event, ctx) == event.timeSec

\* Line 548: the spend is recorded at the time of the request.
SpendTime(event, ctx) == ctx.requestTime

\* Mutation: the return legs are left out of the authorization latency.
AuthTimeWithoutReturnLegs(event, ctx) == event.timeSec - ctx.requestTime

\* Line 520: the end-to-end authorization latency.
AuthTime(event, ctx) == (event.timeSec - ctx.requestTime) + ctx.legsOut

\* Mutation: a sample is recorded at submission and again at confirmation.
RecordSettlementTwice(s, settlement) ==
  [s EXCEPT !.settlementTimes = @ \o <<settlement.timeSec, settlement.timeSec>>,
            !.retries = Append(@, settlement.retries)]

\* Lines 545-546 and 565-566: the sample of a confirmed settlement.
RecordSettlement(s, settlement) ==
  [s EXCEPT !.settlementTimes = Append(@, settlement.timeSec),
            !.retries = Append(@, settlement.retries)]

\* Lines 517-553: wait-on-chain resolves the deferred authorization.
WaitOnChainSettlement(s, event) ==
  LET settlement == event.settlement
      userId == event.userId
  IN IF ~MapHas(s.authContext, event.txnId) THEN s
     ELSE
     LET ctx == s.authContext[event.txnId]
         authTime == AuthTime(event, ctx)
         Log(t, ok) == [t EXCEPT !.hist.settled =
                          Append(@, [txnId |-> event.txnId, userId |-> userId,
                                     amount |-> event.amount, mode |-> "wait_on_chain",
                                     confirmed |-> ok, onChain |-> settlement.confirmed,
                                     timeSec |-> settlement.timeSec])]
     IN IF authTime > spec.authTimeoutSec \/ ~settlement.confirmed
          THEN IF authTime > spec.authTimeoutSec
                 THEN Log(PushTimeout(s, event.txnId), FALSE)
                 ELSE Log(PushDecline(s, event.txnId), FALSE)
        ELSE IF ~canApproveWithLimits(s, userId, event.amount, ctx.requestTime)
          THEN Log(PushDecline([s EXCEPT !.ctr.limitDeclines = @ + 1], event.txnId), FALSE)
        ELSE IF ~BalanceCovers(s, userId, event.amount)
          THEN Log([LogSkipped(s, userId, event.txnId, event.amount) EXCEPT
                      !.ctr.insufficientFundsSkipped = @ + 1], FALSE)
        ELSE LET s0 == PushApproval(Debit(s, userId, event.txnId, event.amount), event.txnId)
                 s1 == [RecordSettlement(s0, settlement) EXCEPT !.hist.approvalTime = MapSet(@, event.txnId, ctx.issuerDone),
                                  !.ctr.fraudApprovals = IF ctx.isFraud THEN @ + 1 ELSE @,
                                  !.authTimes = Append(@, authTime)]
                 s2 == applySpendLimits(s1, userId, event.amount, SpendTime(event, ctx))
             IN Log([s2 EXCEPT !.ctr.totalSpent = @ + event.amount,
                               !.ctr.fraudApprovedAmount =
                                  IF ctx.isFraud THEN @ + event.amount ELSE @,
                               !.ctr.fraudLossTotal =
                                  IF ctx.isFraud THEN @ + event.amount ELSE @], TRUE)

\* Mutation: the on-chain outcome alone decides, whatever the balance.
SettlementConfirmedOnChainOnly(s, event) == event.settlement.confirmed

\* Line 559: the settlement counts as confirmed.
SettlementConfirmed(s, event) ==
  event.settlement.confirmed /\ s.balances[event.userId] >= event.amount

\* Line 556: hold?.approvalTime ?? event.timeSec
ExposureStart(s, event) ==
  IF MapHas(s.holdByTxn, event.txnId) THEN s.holdByTxn[event.txnId].approvalTime
  ELSE event.timeSec

\* Mutation: the exposure ends at the settlement time, uncapped.
ExposureEndUncapped(approvalTime, settlementTime) == approvalTime + settlementTime

\* Line 571: approvalTime + Math.min(settlementTime, maxSettleWindowSec)
ExposureEnd(approvalTime, settlementTime) ==
  approvalTime + Min(settlementTime, spec.maxSettleWindowSec)

\* Mutation: a late confirmation is not reported as exposure.
EmitsExposureFailedOnly(confirmed, settlementTime) == ~confirmed

\* Line 570: the settlement leaves the issuer exposed.
EmitsExposure(confirmed, settlementTime) ==
  ~confirmed \/ settlementTime > spec.settlementSlaSec

\* Lines 584-589: release the transaction's hold, if it is still live.
ReleaseHold(s, event) ==
  IF MapHas(s.holdByTxn, event.txnId)
    THEN LET hold == s.holdByTxn[event.txnId]
             userId == event.userId
             s1 == [s EXCEPT !.holdTotals[userId] = @ - hold.amount,
                             !.holdCounts[userId] = Max(0, @ - 1)]
         IN [s1 EXCEPT !.pendingHoldSamples = Append(@, s1.holdCounts[userId]),
                       !.holdByTxn = MapDelete(@, event.txnId),
                       !.hist.released =
                          Append(@, [txnId |-> event.txnId, by |-> "settlement"])]
    ELSE s

\* Lines 554-590: off-chain-hold settles an approved transaction.
OffchainSettlement(s, event) ==
  LET settlement == event.settlement
      userId == event.userId
      approvalTime == ExposureStart(s, event)
      settlementTime == settlement.timeSec
      confirmed == SettlementConfirmed(s, event)
      s1 == IF confirmed THEN Debit(s, userId, event.txnId, event.amount) ELSE s
      s2 == IF confirmed THEN RecordSettlement(s1, settlement) ELSE s1
      endTime == ExposureEnd(approvalTime, settlementTime)
      s3 == IF EmitsExposure(confirmed, settlementTime)
              THEN [s2 EXCEPT !.exposureEvents =
                                 Append(@, [userId |-> userId, amount |-> event.amount,
                                            startSec |-> approvalTime, endSec |-> endTime]),
                              !.hist.exposureTxn = Append(@, event.txnId),
                              !.exposureDurations = Append(@, endTime - approvalTime),
                              !.ctr.fraudExposureTotal =
                                 IF event.isFraud THEN @ + event.amount ELSE @]
              ELSE s2
      s4 == [s3 EXCEPT !.hist.settled =
               Append(@, [txnId |-> event.txnId, userId |-> userId, amount |-> event.amount,
                          mode |-> "offchain_hold",
                          confirmed |-> confirmed, onChain |-> settlement.confirmed,
                          timeSec |-> settlementTime])]
  IN ReleaseHold(s4, event)

\* Lines 512-591.
SettlementOutcome(s, event) ==
  IF ~event.settlement.present THEN s
  ELSE IF spec.mode = "wait_on_chain" THEN WaitOnChainSettlement(s, event)
  ELSE OffchainSettlement(s, event)

\* ------------------------------------------------------------ event loop
\* One pass of `while (events.size > 0)`: pop, then the handler of the type.
Popped == MinHeapPop(events)

\* The run state after events.pop().
AfterPop ==
  [St EXCEPT !.events = Popped.data, !.hist.dequeued = Counted(@, Popped.top)]

LoopStep(type) ==
  /\ pc = "loop"
  /\ MinHeapSize(events) > 0
  /\ Popped.top.type = type
  /\ current' = Popped.top
  /\ popCount' = popCount + 1
  /\ UNCHANGED <<pc, spec, txnId, bootUser, bootT, initialBalances>>
  /\ UNCHANGED <<stl, smp, orchVars>>

HandlePurchase ==
  /\ LoopStep("purchase")
  /\ \E s1 \in PurchaseOutcomes(AfterPop, Popped.top) : Set(s1)

HandleCompletion ==
  /\ LoopStep("completion")
  /\ \E s1 \in CompletionOutcomes(AfterPop, Popped.top) : Set(s1)

HandleHoldExpiry ==
  /\ LoopStep("hold_expiry")
  /\ Set(HoldExpiryOutcome(AfterPop, Popped.top))

HandleSettlement ==
  /\ LoopStep("settlement")
  /\ Set(SettlementOutcome(AfterPop, Popped.top))

\* The queue is empty: the loop ends and the run result is returned.
Finish ==
  /\ pc = "loop"
  /\ MinHeapSize(events) = 0
  /\ pc' = "done"
  /\ UNCHANGED <<spec, events, current, popCount, txnId, bootUser, bootT, initialBalances,
                 runVars, hist>>
  /\ UNCHANGED <<stl, smp, orchVars>>

Next ==
  \/ PushPurchase
  \/ NextUser
  \/ HandlePurchase
  \/ HandleCompletion
  \/ HandleHoldExpiry
  \/ HandleSettlement
  \/ Finish

Spec == Init /\ [][Next]_vars

\* Where simulateOnce stands: the loop it is in and the loops' counters.
progressVars == <<pc, popCount, txnId, bootUser>>

\* Control advances: a pass of the timeline loop (a purchase pushed, or the
\* loop left for the next user), a pass of the event loop, or its exit.
Advance ==
  \/ pc = "boot" /\ txnId' = txnId + 1 /\ UNCHANGED <<pc, popCount, bootUser>>
  \/ /\ pc = "boot"
     /\ bootUser' = bootUser + 1
     /\ pc' \in {"boot", "loop"}
     /\ UNCHANGED <<popCount, txnId>>
  \/ pc = "loop" /\ popCount' = popCount + 1 /\ UNCHANGED <<pc, txnId, bootUser>>
  \/ pc = "loop" /\ pc' = "done" /\ UNCHANGED <<popCount, txnId, bootUser>>

\* simulateOnce is one synchronous call: until it has returned, control
\* advances.
FairSpec == Spec /\ WF_progressVars(Advance)

\* ------------------------------------------------- the queue on its own
\* Any sequence of push and pop calls on one MinHeap.
HeapInit ==
  /\ pc = "heap"
  /\ spec = BaseSpec
  /\ balances = [u \in Users |-> 0]
  /\ initialBalances = balances
  /\ InitCommon
  /\ stl = NoStl
  /\ smp = NoSmp
  /\ hardwareConcurrency = 0
  /\ OrchIdle

HeapPushOp ==
  /\ pc = "heap"
  /\ hist.pushes < MaxHeapPushes
  /\ \E t \in 0 .. MaxHeapTime :
       events' = MinHeapPush(events,
                   MkEvent(t, "purchase", 0, hist.pushes, 1, 0, NoSettlement, FALSE))
  /\ hist' = [hist EXCEPT !.pushes = @ + 1, !.lastPopEmpty = FALSE]
  /\ UNCHANGED <<pc, spec, current, popCount, txnId, bootUser, bootT, initialBalances, runVars>>
  /\ UNCHANGED <<stl, smp, orchVars>>

HeapPopOp ==
  /\ pc = "heap"
  /\ events' = Popped.data
  /\ current' = Popped.top
  /\ hist' = [hist EXCEPT !.pops = IF MinHeapSize(events) > 0 THEN @ + 1 ELSE @,
                          !.lastPopEmpty = (MinHeapSize(events) = 0)]
  /\ UNCHANGED <<pc, spec, popCount, txnId, bootUser, bootT, initialBalances, runVars>>
  /\ UNCHANGED <<stl, smp, orchVars>>

HeapNext == HeapPushOp \/ HeapPopOp

HeapSpec == HeapInit /\ [][HeapNext]_vars

\* ------------------------------------------------- simulateSettlement
\* Times of the settlement simulator are in tenths of a second (so that the
\* 0.1 s floor of the ledger interval is 1), probabilities in thousandths.
MaxRetriesBound == 3

UnitsPerSec == 10

MsPerUnit == 1000 \div UnitsPerSec

SecPerHour == 3600

MinLedgerInterval == 1

MaxInclusionProb == 999

RECURSIVE Pow(_, _)
Pow(b, e) == IF e <= 0 THEN 1 ELSE b * Pow(b, e - 1)

\* The StellarSpec values explored: every retry budget up to the bound, a
\* window that the backoff can overrun, with and without ledger jitter.
StellarSpecs ==
  { [ledgerCloseMean |-> 2, ledgerJitter |-> j, inclusionProbability |-> p,
     maxRetries |-> r, backoffBaseMs |-> 100, backoffMultiplier |-> 2,
     maxSettleWindowSec |-> w] :
      j \in {0, 2}, p \in {0, 500}, r \in 0 .. MaxRetriesBound, w \in {6, 40} }

OutageSpecs ==
  { [enabled |-> FALSE, startHour |-> 0, durationHours |-> 1,
     submissionDelayMultiplier |-> 2, inclusionProbabilityMultiplier |-> 1],
    [enabled |-> TRUE, startHour |-> 0, durationHours |-> 1,
     submissionDelayMultiplier |-> 2, inclusionProbabilityMultiplier |-> 3],
    [enabled |-> TRUE, startHour |-> 0, durationHours |-> 0,
     submissionDelayMultiplier |-> 2, inclusionProbabilityMultiplier |-> 3],
    [enabled |-> TRUE, startHour |-> 0, durationHours |-> 1,
     submissionDelayMultiplier |-> -2, inclusionProbabilityMultiplier |-> -1] }

\* The start times explored: the start of the window, inside it, its end
\* (for a window of one hour) and just after.
SettleStartTimes ==
  {0, 5, SecPerHour * UnitsPerSec, SecPerHour * UnitsPerSec + 1}

\* sampleDistribution(rng, spec.submissionDelay), in ms
SubmissionDelayDrawsMs == {0, 100}

\* rng() in [0, 1), in thousandths
UniformDraws == {0, 499, 999}

\* sampleLedgerInterval(rng, mean, jitter)
sampleLedgerInterval(u, mean, jitter) ==
  IF jitter <= 0 THEN mean
  ELSE LET delta == ((u * 2 - 1000) * jitter) \div 1000
       IN Max(MinLedgerInterval, mean + delta)

\* Lines 17-19: the call starts inside the outage window.
InOutage(outage, startTimeSec) ==
  LET outageStart == outage.startHour * SecPerHour * UnitsPerSec
      outageEnd == outageStart + outage.durationHours * SecPerHour * UnitsPerSec
  IN outage.enabled /\ startTimeSec >= outageStart /\ startTimeSec <= outageEnd

\* Lines 23-26.
InclusionProb(sp, outage, inOutage) ==
  Min(MaxInclusionProb,
      Max(0, sp.inclusionProbability
               * (IF inOutage THEN outage.inclusionProbabilityMultiplier ELSE 1)))

\* Lines 21-22.
SubmissionDelaySec(submissionDelayMs, outage, inOutage) ==
  (submissionDelayMs \div MsPerUnit)
     * (IF inOutage THEN outage.submissionDelayMultiplier ELSE 1)

\* Mutation: a non-included attempt never exhausts the retry budget.
RetriesExhaustedNever(retriesSoFar, maxRetries) == FALSE

\* Line 44: retries >= spec.maxRetries
RetriesExhausted(retriesSoFar, maxRetries) == retriesSoFar >= maxRetries

\* The returned SettlementResult.
SettleReturn(st, confirmed, timeSec, retriesSoFar, gaveUp) ==
  [st EXCEPT !.pc = "returned", !.timeSec = timeSec, !.retries = retriesSoFar,
             !.result = [confirmed |-> confirmed, timeSec |-> timeSec,
                         retries |-> retriesSoFar, gaveUp |-> gaveUp, present |-> TRUE]]

\* Lines 31-62: one pass of `while (true)`, with the three rng() draws u1
\* (interval), u2 (residual), u3 (inclusion).
SettleLoopBody(st, u1, u2, u3) ==
  LET sp == st.stellar
      interval == sampleLedgerInterval(u1, sp.ledgerCloseMean, sp.ledgerJitter)
      residual == (u2 * interval) \div 1000
      t1 == st.timeSec + residual
      included == u3 < st.inclusionProb
      t2 == t1 + (interval - residual)
      retries1 == st.retries + 1
      backoffMs == sp.backoffBaseMs * Pow(sp.backoffMultiplier, retries1 - 1)
      t3 == t2 + backoffMs \div MsPerUnit
      s0 == [st EXCEPT !.attempts = @ + 1]
  IN IF included THEN SettleReturn(s0, TRUE, t1, st.retries, FALSE)
     ELSE IF RetriesExhausted(st.retries, sp.maxRetries)
       THEN SettleReturn(s0, FALSE, t2, st.retries, TRUE)
     ELSE IF t3 > sp.maxSettleWindowSec
       THEN SettleReturn(s0, FALSE, t3, retries1, TRUE)
     ELSE [s0 EXCEPT !.timeSec = t3, !.retries = retries1]

SettleInit ==
  /\ pc = "settle"
  /\ spec = BaseSpec
  /\ balances = [u \in Users |-> 0]
  /\ initialBalances = balances
  /\ InitCommon
  /\ stl = NoStl
  /\ smp = NoSmp
  /\ hardwareConcurrency = 0
  /\ OrchIdle

kernelVars ==
  <<events, current, popCount, txnId, bootUser, bootT, initialBalances, runVars, hist,
    smp>>

\* Lines 11-29: simulateSettlement(rng, spec, startTimeSec, outage) is called.
SettleCall ==
  /\ pc = "settle"
  /\ stl.pc = "idle"
  /\ \E sp \in StellarSpecs, outage \in OutageSpecs, startTimeSec \in SettleStartTimes,
        submissionDelayMs \in SubmissionDelayDrawsMs :
       LET inOutage == InOutage(outage, startTimeSec) IN
       stl' = [NoStl EXCEPT !.pc = "loop", !.stellar = sp, !.outage = outage,
                            !.startTimeSec = startTimeSec, !.inOutage = inOutage,
                            !.inclusionProb = InclusionProb(sp, outage, inOutage),
                            !.timeSec = SubmissionDelaySec(submissionDelayMs, outage, inOutage)]
  /\ UNCHANGED <<pc, spec, kernelVars, orchVars>>

\* One inclusion attempt.
SettleAttempt ==
  /\ pc = "settle"
  /\ stl.pc = "loop"
  /\ stl.attempts <= MaxRetriesBound + 1
  /\ \E u1, u2, u3 \in UniformDraws : stl' = SettleLoopBody(stl, u1, u2, u3)
  /\ UNCHANGED <<pc, spec, kernelVars, orchVars>>

SettleNext == SettleCall \/ SettleAttempt

SettleSpec == SettleInit /\ [][SettleNext]_vars

\* The loop is not suspended: an attempt that can be made is made.
SettleFairSpec == SettleSpec /\ WF_vars(SettleNext)

\* ------------------------------------------------------------------- rng
\* createRng at reduced width: the generator state is a number modulo
\* RngModulus instead of 2^32, with the xor of the code replaced by addition
\* and Math.imul by multiplication modulo RngModulus.  A string is the
\* sequence of its character codes.
RngModulus == 64

RngIncrement == 53

XmurMultiplier == 17

DashChar == 45

DigitZeroChar == 48

\* The value of a field that the object does not have.
Undefined == <<-1>>

\* "undefined"
UndefinedText == <<117, 110, 100, 101, 102, 105, 110, 101, 100>>

\* `${value}` for a string or undefined
TemplateText(value) == IF value = Undefined THEN UndefinedText ELSE value

\* `${baseSeed}-${runIndex}` (line 197), for runIndex < 10
SeedString(baseSeed, runIndex) ==
  TemplateText(baseSeed) \o <<DashChar, DigitZeroChar + runIndex>>

RECURSIVE xmur3Fold(_, _)
xmur3Fold(h, str) ==
  IF str = << >> THEN h
  ELSE xmur3Fold((((h + Head(str)) % RngModulus) * XmurMultiplier) % RngModulus, Tail(str))

\* xmur3(str)(): the seed integer of the string
xmur3(str) ==
  LET h == xmur3Fold(Len(str) % RngModulus, str)
  IN (h * XmurMultiplier + h \div 4) % RngModulus

\* mulberry32(seed): the state t of the stream
mulberry32(seed) == seed % RngModulus

\* Mutation: the stream the previous run left is continued instead of a new
\* one being created from the seed.
createRngCarried(seed) == lastRng

createRng(seed) == mulberry32(xmur3(seed))

\* One call of the generator: the state it leaves ...
rngNext(t) == (t + RngIncrement) % RngModulus

\* ... and the value it returns, in thousandths (in [0, 1000)).
rngOut(t) ==
  LET t1 == rngNext(t)
      r == (t1 * (2 * (t1 \div 2) + 1) + t1 \div 8) % RngModulus
  IN (r * 1000) \div RngModulus

\* ------------------------------------------- a run, as the run set sees it
\* simulateOnce for a scenario of one user whose timeline holds one purchase,
\* in off-chain-hold mode with holds and pre-authorization off: the code's
\* decisions in the code's order, every sample an output of the run's own
\* stream, which is created from the seed and the run index and threaded
\* through the run.  Times are in tenths of a second.
OrchStellar ==
  [ledgerCloseMean |-> 2, ledgerJitter |-> 2, inclusionProbability |-> 500,
   maxRetries |-> 1, backoffBaseMs |-> 100, backoffMultiplier |-> 2,
   maxSettleWindowSec |-> 6]

OrchOutage ==
  [enabled |-> FALSE, startHour |-> 0, durationHours |-> 1,
   submissionDelayMultiplier |-> 2, inclusionProbabilityMultiplier |-> 1]

\* The ScenarioSpec of a run set: seed, monteCarloRuns, the two switches.
OrchSpecOf(seed, monteCarloRuns, fraudEnabled, spendLimitsEnabled) ==
  [BaseSpec EXCEPT !.seed = seed, !.monteCarloRuns = monteCarloRuns,
                   !.fraudEnabled = fraudEnabled,
                   !.spendLimitsEnabled = spendLimitsEnabled,
                   !.authTimeoutSec = 2, !.settlementSlaSec = 1,
                   !.perTransactionLimit = 2]

ZeroRunMetrics ==
  [approvals |-> 0, declines |-> 0, timeouts |-> 0, overspendPrevented |-> 0,
   fraudExposureTotal |-> 0, fraudLossTotal |-> 0, limitDeclines |-> 0,
   totalSpent |-> 0, insufficientFundsSkipped |-> 0]

\* Lines 598-646 for a run in which nothing happened.
EmptyRunResult ==
  [metrics |-> ZeroRunMetrics, settlementTimes |-> << >>, authTimes |-> << >>,
   exposureEvents |-> << >>, retries |-> << >>, exposureDurations |-> << >>,
   pendingHoldSamples |-> << >>, preAuthMismatchCount |-> 0, preAuthCount |-> 0,
   incrementalAuthSuccessCount |-> 0, incrementalAuthCount |-> 0,
   fraudAttempts |-> 0, fraudApprovals |-> 0]

\* The loop of simulateSettlement driven by the stream (sampleLedgerInterval
\* draws only when there is jitter): [result, rng]
RECURSIVE simulateSettlement(_, _)
simulateSettlement(t, st) ==
  IF st.pc = "returned" THEN [result |-> st.result, rng |-> t]
  ELSE LET jitter == st.stellar.ledgerJitter > 0
           u1 == IF jitter THEN rngOut(t) ELSE 0
           t2 == IF jitter THEN rngNext(t) ELSE t
       IN simulateSettlement(rngNext(rngNext(t2)),
                             SettleLoopBody(st, u1, rngOut(t2), rngOut(rngNext(t2))))

\* Lines 11-29, then the loop.
simulateSettlementFrom(t, sp, startTimeSec, outage) ==
  LET inOutage == InOutage(outage, startTimeSec)
      submissionDelayMs == 100 * (rngOut(t) \div 500)
  IN simulateSettlement(rngNext(t),
       [NoStl EXCEPT !.pc = "loop", !.stellar = sp, !.outage = outage,
                     !.startTimeSec = startTimeSec, !.inOutage = inOutage,
                     !.inclusionProb = InclusionProb(sp, outage, inOutage),
                     !.timeSec = SubmissionDelaySec(submissionDelayMs, outage, inOutage)])

\* Lines 554-590 for the purchase approved at issuerDone: the settlement
\* event of a transaction without hold.
SettleApproved(run, sp, balance, amount, isFraud, issuerDone, settlement) ==
  LET eventTime == issuerDone + settlement.timeSec
      confirmed == settlement.confirmed /\ balance >= amount
      r1 == IF confirmed
              THEN [run EXCEPT !.settlementTimes = Append(@, settlement.timeSec),
                               !.retries = Append(@, settlement.retries)]
              ELSE run
      endTime == eventTime + Min(settlement.timeSec, OrchStellar.maxSettleWindowSec)
  IN IF ~confirmed \/ settlement.timeSec > sp.settlementSlaSec
       THEN [r1 EXCEPT !.exposureEvents =
                          Append(@, [userId |-> 0, amount |-> amount,
                                     startSec |-> eventTime, endSec |-> endTime]),
                       !.exposureDurations = Append(@, endTime - eventTime),
                       !.metrics.fraudExposureTotal = IF isFraud THEN @ + amount ELSE @]
       ELSE r1

\* Lines 359-463 for the purchase, after the fraud screen, from stream state t.
DecidePurchase(run, sp, t, balance, amount, isFraud) ==
  LET legSec == rngOut(t) \div 500
      processingSec == rngOut(rngNext(t)) \div 500
      t2 == rngNext(rngNext(t))
      issuerDone == legSec + processingSec
      authTime == legSec + processingSec + legSec
  IN IF authTime > sp.authTimeoutSec
       THEN [run EXCEPT !.metrics.timeouts = @ + 1]
     ELSE IF /\ sp.spendLimitsEnabled
             /\ \/ sp.perTransactionLimit > 0 /\ amount > sp.perTransactionLimit
                \/ sp.perUserDailyLimit > 0 /\ amount > sp.perUserDailyLimit
                \/ sp.perUserTimeslotLimit > 0 /\ amount > sp.perUserTimeslotLimit
       THEN [run EXCEPT !.metrics.limitDeclines = @ + 1, !.metrics.declines = @ + 1]
     ELSE IF balance < amount
       THEN [run EXCEPT !.metrics.insufficientFundsSkipped = @ + 1]
     ELSE LET r1 == [run EXCEPT !.metrics.approvals = @ + 1,
                                !.fraudApprovals = IF isFraud THEN @ + 1 ELSE @,
                                !.authTimes = Append(@, authTime),
                                !.metrics.totalSpent = @ + amount,
                                !.metrics.fraudLossTotal = IF isFraud THEN @ + amount ELSE @]
              settled == simulateSettlementFrom(t2, OrchStellar, issuerDone, OrchOutage)
          IN SettleApproved(r1, sp, balance, amount, isFraud, issuerDone, settled.result)

\* Lines 336-358: the purchase handler up to the fraud screen.
ScreenPurchase(sp, t, balance, amount0) ==
  IF balance <= 0 THEN EmptyRunResult
  ELSE IF sp.fraudEnabled /\ rngOut(t) < 500
    THEN LET r1 == [EmptyRunResult EXCEPT !.fraudAttempts = @ + 1]
             amount == amount0 * 2
             autoDecline == rngOut(rngNext(rngNext(t))) < 250
             t3 == rngNext(rngNext(rngNext(t)))
         IN IF autoDecline THEN [r1 EXCEPT !.metrics.declines = @ + 1]
            ELSE DecidePurchase(r1, sp, t3, balance, amount, TRUE)
  ELSE DecidePurchase(EmptyRunResult, sp, IF sp.fraudEnabled THEN rngNext(t) ELSE t,
                      balance, amount0, FALSE)

\* simulateOnce(spec, baseSeed, runIndex): lines 196-232 (one balance, one
\* interarrival time and one amount, then the interarrival time that ends
\* the timeline), then the event loop.
simulateOnce(sp, baseSeed, runIndex) ==
  LET t0 == createRng(SeedString(baseSeed, runIndex))
      balance == 1 + rngOut(t0) \div 300
      amount0 == 1 + rngOut(rngNext(rngNext(t0))) \div 500
      t4 == rngNext(rngNext(rngNext(rngNext(t0))))
  IN ScreenPurchase(sp, t4, balance, amount0)

\* The stream of the run as the bootstrap (lines 207-232) leaves it.
RngAfterBootstrap(baseSeed, runIndex) ==
  rngNext(rngNext(rngNext(rngNext(createRng(SeedString(baseSeed, runIndex))))))

\* ------------------------------------------------------- run aggregator
P95 == 95

RECURSIVE GCD(_, _)
GCD(a, b) == IF b = 0 THEN a ELSE GCD(b, a % b)

\* a / b as a number: the fraction in lowest terms (b > 0, a >= 0)
Frac(a, b) == LET g == GCD(a, b) IN IF a = 0 THEN <<0, 1>> ELSE <<a \div g, b \div g>>

RECURSIVE Insert(_, _)
Insert(sorted, v) ==
  IF sorted = << >> THEN <<v>>
  ELSE IF v <= Head(sorted) THEN <<v>> \o sorted
  ELSE <<Head(sorted)>> \o Insert(Tail(sorted), v)

RECURSIVE SortAsc(_)
SortAsc(values) ==
  IF values = << >> THEN << >> ELSE Insert(SortAsc(Tail(values)), Head(values))

\* percentile(values, p), p in hundredths
percentile(values, p) ==
  IF Len(values) = 0 THEN 0
  ELSE LET sorted == SortAsc(values)
           idx == Min(Len(sorted) - 1, Max(0, (p * (Len(sorted) - 1)) \div 100))
       IN sorted[idx + 1]

RECURSIVE SumSeq(_)
SumSeq(values) == IF values = << >> THEN 0 ELSE Head(values) + SumSeq(Tail(values))

\* average(values)
average(values) ==
  IF Len(values) = 0 THEN <<0, 1>> ELSE Frac(SumSeq(values), Len(values))

\* run[field] of every run of the list, in order
PerRun(runList, field) == [i \in DOMAIN runList |-> runList[i][field]]

\* `x += run[field]` and `x += run.metrics[field]` over the run list
SumOver(runList, field) == SumSeq(PerRun(runList, field))

SumOverMetrics(runList, field) ==
  SumSeq([i \in DOMAIN runList |-> runList[i].metrics[field]])

RECURSIVE Flatten(_)
Flatten(seqs) == IF seqs = << >> THEN << >> ELSE Head(seqs) \o Flatten(Tail(seqs))

\* `xs.push(...run[field])` over the run list
ConcatOver(runList, field) == Flatten(PerRun(runList, field))

\* Mutation: the percentile of the per-run percentiles.
PercentileOfRunPercentiles(samplesPerRun, p) ==
  percentile([i \in DOMAIN samplesPerRun |-> percentile(samplesPerRun[i], p)], p)

\* percentile(merged samples, p): lines 710-715 and 740-753
MergedPercentile(samplesPerRun, p) == percentile(Flatten(samplesPerRun), p)

\* n / d, or 0 when d is 0 (`d ? n / d : 0`)
RateOrZero(n, d) == IF d = 0 THEN <<0, 1>> ELSE Frac(n, d)

\* aggregateRunResults(spec, runs): metrics and the raw exposure-event list
\* (the time series, the histograms and the summary string are left out).
aggregateRunResults(sp, runList) ==
  LET nApprovals == SumOverMetrics(runList, "approvals")
      nDeclines == SumOverMetrics(runList, "declines")
      nTimeouts == SumOverMetrics(runList, "timeouts")
      nFraudAttempts == SumOver(runList, "fraudAttempts")
      nFraudApprovals == SumOver(runList, "fraudApprovals")
      nPreAuthMismatch == SumOver(runList, "preAuthMismatchCount")
      nPreAuth == SumOver(runList, "preAuthCount")
      nIncSuccess == SumOver(runList, "incrementalAuthSuccessCount")
      nInc == SumOver(runList, "incrementalAuthCount")
      allSettlementTimes == ConcatOver(runList, "settlementTimes")
      allAuthTimes == ConcatOver(runList, "authTimes")
      allExposureEvents == ConcatOver(runList, "exposureEvents")
      allPendingHolds == ConcatOver(runList, "pendingHoldSamples")
      total == nApprovals + nDeclines + nTimeouts
      successRate == Frac(Len(allSettlementTimes), Max(1, nApprovals))
  IN [metrics |->
        [approvals |-> nApprovals,
         declines |-> nDeclines,
         timeouts |-> nTimeouts,
         approvalRate |-> RateOrZero(nApprovals, total),
         declineRate |-> RateOrZero(nDeclines, total),
         timeoutRate |-> RateOrZero(nTimeouts, total),
         avgAuthTimeSec |-> average(allAuthTimes),
         p95AuthTimeSec |-> MergedPercentile(PerRun(runList, "authTimes"), P95),
         settlementSuccessRate |-> successRate,
         settlementFailRate |-> <<successRate[2] - successRate[1], successRate[2]>>,
         avgSettlementTimeSec |-> average(allSettlementTimes),
         p95SettlementTimeSec |-> MergedPercentile(PerRun(runList, "settlementTimes"), P95),
         retryP95 |-> MergedPercentile(PerRun(runList, "retries"), P95),
         exposureCount |-> Len(allExposureEvents),
         totalExposure |-> SumSeq([i \in DOMAIN allExposureEvents |-> allExposureEvents[i].amount]),
         exposureDurationP95Sec |->
            MergedPercentile(PerRun(runList, "exposureDurations"), P95),
         overspendPrevented |-> SumOverMetrics(runList, "overspendPrevented"),
         avgPendingHolds |-> average(allPendingHolds),
         p95PendingHolds |-> MergedPercentile(PerRun(runList, "pendingHoldSamples"), P95),
         preAuthMismatchRate |-> RateOrZero(nPreAuthMismatch, nPreAuth),
         incrementalAuthSuccessRate |-> RateOrZero(nIncSuccess, nInc),
         fraudAttemptRate |-> RateOrZero(nFraudAttempts, total),
         fraudApprovalRate |-> RateOrZero(nFraudApprovals, nFraudAttempts),
         fraudExposureTotal |-> SumOverMetrics(runList, "fraudExposureTotal"),
         fraudLossTotal |-> SumOverMetrics(runList, "fraudLossTotal"),
         limitDeclines |-> SumOverMetrics(runList, "limitDeclines"),
         totalSpent |-> SumOverMetrics(runList, "totalSpent"),
         insufficientFundsSkipped |->
            SumOverMetrics(runList, "insufficientFundsSkipped"),
         fraudApprovalRateNoLimits |-> <<0, 1>>,
         fraudExposureTotalNoLimits |-> 0,
         fraudLossTotalNoLimits |-> 0],
      settlementPercentiles |->
         [p \in {50, 75, 90, 95, 99} |->
            MergedPercentile(PerRun(runList, "settlementTimes"), p)],
      authPercentiles |->
         [p \in {50, 75, 90, 95, 99} |->
            MergedPercentile(PerRun(runList, "authTimes"), p)],
      exposureEvents |-> allExposureEvents,
      seed |-> sp.seed]

\* ---------------------------------------------------- sequential run set
\* Math.max(1, Math.floor(spec.monteCarloRuns)) (line 822; App.tsx line 26)
TotalRunsOf(sp) == Max(1, sp.monteCarloRuns)

\* runSimulationRuns(spec, startIndex, count): the list it returns
runSimulationRuns(sp, startIndex, count) ==
  [i \in 1 .. count |-> simulateOnce(sp, sp.seed, startIndex + i - 1)]

runSimulationInternal(sp) ==
  aggregateRunResults(sp, runSimulationRuns(sp, 0, TotalRunsOf(sp)))

\* spec.fraud.enabled && spec.spendLimits.enabled
HasAlt(sp) == sp.fraudEnabled /\ sp.spendLimitsEnabled

\* { ...spec, spendLimits: { ...spec.spendLimits, enabled: false } }
AltSpec(sp) == [sp EXCEPT !.spendLimitsEnabled = FALSE]

\* Mutation: the counterfactual is always a copy of the primary result.
AttachNoLimitsMirrorOnly(base, noLimits) ==
  [base EXCEPT !.metrics.fraudApprovalRateNoLimits = base.metrics.fraudApprovalRate,
               !.metrics.fraudExposureTotalNoLimits = base.metrics.fraudExposureTotal,
               !.metrics.fraudLossTotalNoLimits = base.metrics.fraudLossTotal]

\* Lines 837-839 (841-843 with noLimits = base)
AttachNoLimits(base, noLimits) ==
  [base EXCEPT !.metrics.fraudApprovalRateNoLimits = noLimits.metrics.fraudApprovalRate,
               !.metrics.fraudExposureTotalNoLimits = noLimits.metrics.fraudExposureTotal,
               !.metrics.fraudLossTotalNoLimits = noLimits.metrics.fraudLossTotal]

\* runSimulation(spec)
runSimulation(sp) ==
  LET base == runSimulationInternal(sp)
  IN IF HasAlt(sp) THEN AttachNoLimits(base, runSimulationInternal(AltSpec(sp)))
     ELSE AttachNoLimits(base, base)

\* ------------------------------------------------------- progress values
FracAdd(a, b) == Frac(a[1] * b[2] + b[1] * a[2], a[2] * b[2])

FracMul(a, b) == Frac(a[1] * b[1], a[2] * b[2])

FracLeq(a, b) == a[1] * b[2] <= b[1] * a[2]

\* Mutation: the phase offset is dropped from the reported progress.
PhaseProgressNoOffset(progressOffset, completed, runCount, progressScale) ==
  FracMul(Frac(completed, runCount), progressScale)

\* Line 824: progressOffset + (completed / runs) * progressScale
PhaseProgress(progressOffset, completed, runCount, progressScale) ==
  FracAdd(progressOffset, FracMul(Frac(completed, runCount), progressScale))

\* Line 853: hasAlt ? 0.5 : 1
PhaseScale(sp) == IF HasAlt(sp) THEN <<1, 2>> ELSE <<1, 1>>

\* --------------------------------------------- the run set, step by step
MaxRuns == 3

MaxParallelism == 2

MaxJobs == 2

MaxExecutions == 2

DefaultParallelism == 4

\* The seed strings explored ("d", "f").
Seeds == {<<100>>, <<102>>}

OrchInit ==
  /\ pc \in {"pool", "seq"}
  /\ \E seed \in Seeds, monteCarloRuns \in 0 .. MaxRuns,
        flags \in BOOLEAN \X BOOLEAN :
       spec = OrchSpecOf(seed, monteCarloRuns, flags[1], flags[2])
  /\ hardwareConcurrency \in 0 .. MaxParallelism
  /\ balances = [u \in Users |-> 0]
  /\ initialBalances = balances
  /\ InitCommon
  /\ stl = NoStl
  /\ smp = NoSmp
  /\ OrchIdle

\* ---- sequential: runSimulation / runSimulationWithProgress (lines 816-872)
\* The spec of the phase an execution is in.
PhaseSpec(e) == IF e.phase = "alt" THEN AltSpec(spec) ELSE spec

\* The call: onProgress(0) for runSimulationWithProgress, then the first
\* runSimulationInternal starts.
ExecStart ==
  /\ pc = "seq"
  /\ Len(exec) < MaxExecutions
  /\ Len(exec) > 0 => exec[Len(exec)].phase = "done"
  /\ \E api \in {"runSimulation", "runSimulationWithProgress"} :
       exec' = Append(exec,
                 [api |-> api, phase |-> "base", i |-> 0, runList |-> << >>,
                  base |-> << >>, result |-> << >>,
                  reported |-> IF api = "runSimulationWithProgress" THEN <<(<<0, 1>>)>>
                               ELSE << >>])
  /\ UNCHANGED <<pc, spec, kernelVars, stl, hardwareConcurrency, workersRef, workers,
                 batches, jobs, lastRng>>

\* One pass of the loop of runSimulationRuns (lines 665-669) in the current
\* execution: the run, runs.push, onProgress(i + 1).
ExecRun ==
  /\ pc = "seq"
  /\ Len(exec) > 0
  /\ LET n == Len(exec)
         e == exec[n]
         sp == PhaseSpec(e)
         runCount == TotalRunsOf(sp)
         run == simulateOnce(sp, sp.seed, 0 + e.i)
         value == PhaseProgress(IF e.phase = "alt" THEN PhaseScale(spec) ELSE <<0, 1>>,
                                e.i + 1, runCount, PhaseScale(spec))
     IN /\ e.phase \in {"base", "alt"}
        /\ e.i < runCount
        /\ exec' = [exec EXCEPT ![n] =
                      [e EXCEPT !.i = @ + 1, !.runList = Append(@, run),
                                !.reported = IF e.api = "runSimulationWithProgress"
                                               THEN Append(@, value) ELSE @]]
        /\ lastRng' = RngAfterBootstrap(sp.seed, e.i)
  /\ UNCHANGED <<pc, spec, kernelVars, stl, hardwareConcurrency, workersRef, workers,
                 batches, jobs>>

\* runSimulationInternal returns (line 826): the primary result is kept and
\* the counterfactual phase starts, or the NoLimits fields are filled, the
\* final onProgress(1) is made and the result returned.
ExecPhaseEnd ==
  /\ pc = "seq"
  /\ Len(exec) > 0
  /\ LET n == Len(exec)
         e == exec[n]
         sp == PhaseSpec(e)
         aggregated == aggregateRunResults(sp, e.runList)
         final == IF e.phase = "alt" THEN AttachNoLimits(e.base, aggregated)
                  ELSE AttachNoLimits(aggregated, aggregated)
     IN /\ e.phase \in {"base", "alt"}
        /\ e.i = TotalRunsOf(sp)
        /\ exec' = [exec EXCEPT ![n] =
                      IF e.phase = "base" /\ HasAlt(spec)
                        THEN [e EXCEPT !.phase = "alt", !.i = 0, !.runList = << >>,
                                       !.base = aggregated]
                        ELSE [e EXCEPT !.phase = "done", !.result = final,
                                       !.reported = IF e.api = "runSimulationWithProgress"
                                                      THEN Append(@, <<1, 1>>) ELSE @]]
  /\ UNCHANGED <<pc, spec, kernelVars, stl, hardwareConcurrency, workersRef, workers,
                 batches, jobs, lastRng>>

\* ---- worker pool: useSimulationPool.run (App.tsx 19-70), worker.ts
\* navigator.hardwareConcurrency ?? 4
AvailableParallelism == IF hardwareConcurrency = 0 THEN DefaultParallelism ELSE hardwareConcurrency

\* Line 27
WorkerCountOf(totalRuns) == Min(AvailableParallelism, totalRuns)

\* Mutation: the remainder of the division is given to no worker.
RunsForWorkerNoRemainder(idx, totalRuns, workerCount) == totalRuns \div workerCount

\* Lines 31-32, 38: runsPerWorker + (idx < remainder ? 1 : 0)
RunsForWorker(idx, totalRuns, workerCount) ==
  (totalRuns \div workerCount) + (IF idx < totalRuns % workerCount THEN 1 ELSE 0)

\* Lines 33, 41: startIndex when the request of worker idx is built
RECURSIVE StartIndexFor(_, _, _)
StartIndexFor(idx, totalRuns, workerCount) ==
  IF idx = 0 THEN 0
  ELSE StartIndexFor(idx - 1, totalRuns, workerCount)
         + RunsForWorker(idx - 1, totalRuns, workerCount)

\* Mutation: terminate() has no effect.
TerminateWorkerForgotten(w) == w

\* worker.terminate(): the worker is destroyed; what it posted and was not
\* yet delivered is dropped, and nothing of its state is kept.
TerminateWorker(w) ==
  [w EXCEPT !.terminated = TRUE, !.outbox = << >>, !.sent = << >>, !.done = << >>,
            !.doneAtPost = << >>, !.runResults = << >>, !.finished = FALSE]

\* The closure of a run() whose workers are terminated before it returned:
\* its promise never resolves and nothing refers to its arrays any more.
DiscardBatch(batch) ==
  [batch EXCEPT !.discarded = TRUE, !.results = << >>, !.resultFrom = << >>,
                !.resolved = 0, !.progress = 0,
                !.progressByWorker = [k \in DOMAIN @ |-> 0]]

\* workersRef.current.forEach((worker) => worker.terminate())
TerminateAll(ws, ref) ==
  [k \in DOMAIN ws |-> IF k \in Range(ref) THEN TerminateWorker(ws[k]) ELSE ws[k]]

\* new Worker(...) with the request { spec, startIndex, runs, workerId }
\* posted to it (lines 29, 38-40, 59)
NewWorker(b, sp, idx, totalRuns, workerCount) ==
  [batch |-> b, sp |-> sp, workerId |-> idx,
   startIndex |-> StartIndexFor(idx, totalRuns, workerCount),
   runs |-> RunsForWorker(idx, totalRuns, workerCount),
   done |-> << >>, doneAtPost |-> << >>, runResults |-> << >>, outbox |-> << >>,
   sent |-> << >>, finished |-> FALSE, terminated |-> FALSE]

\* Lines 26-61: run(spec, onProgress) up to `await Promise.all(promises)`,
\* called by job j.  progress is the completed count last passed to
\* onProgress as completed / totalRuns.
StartBatch(sp, j) ==
  LET totalRuns == TotalRunsOf(sp)
      workerCount == WorkerCountOf(totalRuns)
      b == Len(batches) + 1
      first == Len(workers)
  IN /\ workers' = TerminateAll(workers, workersRef)
                      \o [k \in 1 .. workerCount |->
                            NewWorker(b, sp, k - 1, totalRuns, workerCount)]
     /\ workersRef' = [k \in 1 .. workerCount |-> first + k]
     /\ batches' = Append([k \in DOMAIN batches |->
                             IF \E x \in Range(workersRef) : workers[x].batch = k
                               THEN DiscardBatch(batches[k]) ELSE batches[k]],
                      [job |-> j, sp |-> sp, totalRuns |-> totalRuns,
                       workerCount |-> workerCount,
                       workerIds |-> [k \in 1 .. workerCount |-> first + k],
                       progressByWorker |-> [k \in 1 .. workerCount |-> 0],
                       results |-> << >>, resultFrom |-> << >>, resolved |-> 0,
                       progress |-> 0, returned |-> FALSE, discarded |-> FALSE])

\* The files handed to the import control: a text that is not JSON, the
\* export of the current spec (JSON.stringify(spec), line 164), and that
\* export with the required field `seed` taken out.
ImportFiles(sp) ==
  { [parses |-> FALSE, value |-> sp],
    [parses |-> TRUE, value |-> sp],
    [parses |-> TRUE, value |-> [sp EXCEPT !.seed = Undefined]] }

\* handleImport (App.tsx 176-190), reader.onload: setSpec(JSON.parse(text)),
\* and nothing when JSON.parse throws.  A file is imported before a run is
\* started.
HandleImport ==
  /\ pc = "pool"
  /\ jobs = << >>
  /\ \E file \in ImportFiles(spec) :
       spec' = IF file.parses THEN file.value ELSE spec
  /\ UNCHANGED <<pc, kernelVars, stl, orchVars>>

\* handleRun (App.tsx 110-121) up to the first await: the primary batch.
\* The first invocation, or one made while an earlier one has not finished.
HandleRun ==
  /\ pc = "pool"
  /\ Len(jobs) < MaxJobs
  /\ \A j \in DOMAIN jobs : jobs[j].phase # "done"
  /\ jobs' = Append(jobs, [phase |-> "base", baseBatch |-> Len(batches) + 1, altBatch |-> 0,
                           base |-> << >>, result |-> << >>])
  /\ StartBatch(spec, Len(jobs) + 1)
  /\ UNCHANGED <<pc, spec, kernelVars, stl, hardwareConcurrency, exec, lastRng>>

\* Mutation: every progress message reports all the runs as completed.
WorkerProgressAllDone(workerId, completed, total) ==
  [type |-> "progress", workerId |-> workerId, completed |-> total, total |-> total,
   data |-> << >>]

\* worker.ts line 18
WorkerProgress(workerId, completed, total) ==
  [type |-> "progress", workerId |-> workerId, completed |-> completed, total |-> total,
   data |-> << >>]

\* worker.ts line 21
WorkerDone(workerId, data) ==
  [type |-> "result", workerId |-> workerId, completed |-> 0, total |-> 0, data |-> data]

\* self.postMessage(message): sent is everything the worker posted so far,
\* doneAtPost the run indices it had executed when it posted each message,
\* outbox what the main thread has not received yet.
PostMessage(w, message) ==
  [w EXCEPT !.outbox = Append(@, message), !.sent = Append(@, message),
            !.doneAtPost = Append(@, w.done)]

\* runSimulationRuns(spec, startIndex, runs, onProgress) in a worker
\* (defaults.ts 665-669, worker.ts 17-20) from pass i of the loop on: the
\* run, runs.push, the progress message.
RECURSIVE WorkerLoop(_, _)
WorkerLoop(w, i) ==
  IF i >= w.runs THEN w
  ELSE LET run == simulateOnce(w.sp, w.sp.seed, w.startIndex + i)
           ran == [w EXCEPT !.done = Append(@, w.startIndex + i),
                            !.runResults = Append(@, run)]
       IN WorkerLoop(PostMessage(ran, WorkerProgress(w.workerId, i + 1, w.runs)), i + 1)

\* worker.ts 15-23: the onmessage handler of worker k, from the request to
\* the result message.
WorkerOnMessage(k) ==
  /\ pc = "pool"
  /\ ~workers[k].terminated
  /\ ~workers[k].finished
  /\ LET looped == WorkerLoop(workers[k], 0)
     IN workers' = [workers EXCEPT ![k] =
                      PostMessage([looped EXCEPT !.finished = TRUE],
                                  WorkerDone(looped.workerId, looped.runResults))]
  /\ UNCHANGED <<pc, spec, kernelVars, stl, hardwareConcurrency, workersRef, batches, jobs,
                 exec, lastRng>>

\* App.tsx 49-53: worker.onmessage for a progress message of worker k.
DeliverProgress(k) ==
  /\ pc = "pool"
  /\ workers[k].outbox # << >>
  /\ Head(workers[k].outbox).type = "progress"
  /\ LET message == Head(workers[k].outbox)
         b == workers[k].batch
         byWorker == [batches[b].progressByWorker EXCEPT ![message.workerId + 1] =
                        message.completed]
     IN batches' = [batches EXCEPT ![b].progressByWorker = byWorker,
                                   ![b].progress = SumSeq(byWorker)]
  /\ workers' = [workers EXCEPT ![k].outbox = Tail(@)]
  /\ UNCHANGED <<pc, spec, kernelVars, stl, hardwareConcurrency, workersRef, jobs, exec,
                 lastRng>>

\* Lines 125-142 of handleRun once the counterfactual batch has returned.
FinishJob(job, altSp, altRuns) ==
  [job EXCEPT !.phase = "done",
              !.result = AttachNoLimits(job.base, aggregateRunResults(altSp, altRuns))]

\* App.tsx 54-57: worker.onmessage for the result message of worker k; when
\* it resolves the last promise, run() goes on after `await Promise.all`
\* (lines 63-66) and, for a counterfactual batch, handleRun to its end.
DeliverResult(k) ==
  /\ pc = "pool"
  /\ workers[k].outbox # << >>
  /\ Head(workers[k].outbox).type = "result"
  /\ LET message == Head(workers[k].outbox)
         b == workers[k].batch
         batch == batches[b]
         gathered == batch.results \o message.data
         all == batch.resolved + 1 = batch.workerCount
         delivered == [workers EXCEPT ![k].outbox = Tail(@)]
         job == jobs[batch.job]
     IN /\ batches' = [batches EXCEPT
                         ![b].results = gathered,
                         ![b].resultFrom = @ \o [i \in DOMAIN message.data |-> k],
                         ![b].resolved = @ + 1,
                         ![b].returned = all]
        /\ workers' = IF all THEN TerminateAll(delivered, workersRef) ELSE delivered
        /\ workersRef' = IF all THEN << >> ELSE workersRef
        /\ jobs' = IF all /\ job.phase = "alt" /\ job.altBatch = b
                     THEN [jobs EXCEPT ![batch.job] = FinishJob(job, batch.sp, gathered)]
                     ELSE jobs
  /\ UNCHANGED <<pc, spec, kernelVars, stl, hardwareConcurrency, exec, lastRng>>

\* handleRun 122-142 after the primary batch has returned and the engine
\* module is imported: the runs are aggregated, then either the
\* counterfactual batch is started or the NoLimits fields mirror the result.
HandleRunAggregate(j) ==
  /\ pc = "pool"
  /\ jobs[j].phase = "base"
  /\ batches[jobs[j].baseBatch].returned
  /\ LET aggregated == aggregateRunResults(spec, batches[jobs[j].baseBatch].results)
     IN IF HasAlt(spec)
          THEN /\ jobs' = [jobs EXCEPT ![j].phase = "alt", ![j].base = aggregated,
                                       ![j].altBatch = Len(batches) + 1]
               /\ StartBatch(AltSpec(spec), j)
          ELSE /\ jobs' = [jobs EXCEPT ![j].phase = "done",
                                       ![j].result = AttachNoLimits(aggregated, aggregated)]
               /\ UNCHANGED <<workers, workersRef, batches>>
  /\ UNCHANGED <<pc, spec, kernelVars, stl, hardwareConcurrency, exec, lastRng>>

OrchNext ==
  \/ ExecStart
  \/ ExecRun
  \/ ExecPhaseEnd
  \/ HandleImport
  \/ HandleRun
  \/ \E k \in DOMAIN workers : WorkerOnMessage(k)
  \/ \E k \in DOMAIN workers : DeliverProgress(k)
  \/ \E k \in DOMAIN workers : DeliverResult(k)
  \/ \E j \in DOMAIN jobs : HandleRunAggregate(j)

OrchSpec == OrchInit /\ [][OrchNext]_vars

\* ================================================================ claims
NoDuplicates(seq) == \A i, j \in DOMAIN seq : i # j => seq[i] # seq[j]

RECURSIVE SumAmounts(_)
SumAmounts(seq) == IF seq = << >> THEN 0 ELSE Head(seq).amount + SumAmounts(Tail(seq))

TxnIdsOf(seq) == [i \in DOMAIN seq |-> seq[i].txnId]

IsConfirmed(r) == r.confirmed

\* ---------------------------------------------------------------- C1
\* C1: in every run of simulateOnce the timestamps of the popped events are
\* non-decreasing: the event popped is the earliest of the queue, and after
\* its handler has run no event left in the queue (follow-ups included) is
\* earlier than the event just processed.
C1_PopStepOrdered ==
  (pc = "loop" /\ popCount' = popCount + 1) =>
     /\ popCount > 0 => current'.timeSec >= current.timeSec
     /\ \A i \in DOMAIN events : events[i].timeSec >= current'.timeSec
     /\ \A i \in DOMAIN events' : events'[i].timeSec >= current'.timeSec

C2_HeapStepOk ==
  pc = "heap" =>
    IF hist'.pushes = hist.pushes + 1
      THEN /\ Len(events') = Len(events) + 1
           /\ Range(events) \subseteq Range(events')
           /\ \E e \in Range(events') : e.txnId = hist.pushes /\ e \notin Range(events)
      ELSE IF events = << >>
        THEN current' = NoEvent /\ events' = << >>
        ELSE /\ current' \in Range(events)
             /\ \A e \in Range(events) : current'.timeSec <= e.timeSec
             /\ Range(events') = Range(events) \ {current'}
             /\ Len(events') = Len(events) - 1

C2_PopReturnsMinimum ==
  /\ [](pc = "heap" => Len(events) = hist.pushes - hist.pops)
  /\ [](pc = "heap" => Cardinality(Range(events)) = Len(events))
  /\ [][C2_HeapStepOk]_vars

\* Three pops done, the last of a later event, with three events still queued.
C2_Witness ==
  /\ pc = "heap"
  /\ hist.pops >= 2
  /\ Len(events) >= 3
  /\ current.timeSec > 0
  /\ \E i \in DOMAIN events : events[i].timeSec > events[1].timeSec

\* ---------------------------------------------------------------- C3
\* C3: a transaction's amount is debited from its user's balance exactly once
\* if its settlement is confirmed (off-chain hold) or it is approved
\* (wait-on-chain), and never otherwise: each balance is the initial balance
\* minus the amounts of the user's confirmed settlements, no transaction is
\* settled or debited twice, and the debited transactions are exactly the
\* confirmed ones.
C3_DebitedOncePerConfirmed ==
  /\ NoDuplicates(TxnIdsOf(hist.settled))
  /\ NoDuplicates(hist.debits)
  /\ hist.debits = TxnIdsOf(SelectSeq(hist.settled, IsConfirmed))
  /\ \A u \in Users :
       balances[u] = initialBalances[u]
                       - SumAmounts(SelectSeq(hist.settled,
                                              LAMBDA r : r.confirmed /\ r.userId = u))
  /\ spec.mode = "wait_on_chain" => Range(hist.debits) = Range(approvals)
  /\ spec.mode = "offchain_hold" => Len(hist.debits) = Len(settlementTimes)

\* One user with one settlement confirmed and debited and one not confirmed.
C3_Witness ==
  /\ pc = "done"
  /\ \E i, j \in DOMAIN hist.settled :
       /\ hist.settled[i].confirmed
       /\ ~hist.settled[j].confirmed
       /\ hist.settled[i].userId = hist.settled[j].userId
       /\ balances[hist.settled[i].userId]
            = initialBalances[hist.settled[i].userId] - hist.settled[i].amount

\* ---------------------------------------------------------------- C4
\* C4: immediately after any step that increases a user's outstanding hold
\* total (a hold placed at approval, or a completion enlarging it), that hold
\* total does not exceed the user's balance.
C4_HoldRaiseStepOk ==
  \A u \in Users : holdTotals'[u] > holdTotals[u] => holdTotals'[u] <= balances'[u]

C4_HoldWithinBalanceWhenRaised == [][C4_HoldRaiseStepOk]_vars

\* A completion has enlarged a hold, and the user holds the whole balance.
C4_Witness ==
  /\ ctr.incrementalAuthSuccessCount > 0
  /\ current.type = "completion"
  /\ \E u \in Users : holdTotals[u] = balances[u] /\ holdTotals[u] > 0

\* ---------------------------------------------------------------- C5
\* C5: at every point of a run every user's outstanding hold total is >= 0,
\* and a hold is released at most once, by its hold_expiry or by its
\* settlement, whichever is processed first.
C5_HoldTotalsNonNegative ==
  /\ \A u \in Users : holdTotals[u] >= 0
  /\ NoDuplicates(TxnIdsOf(hist.released))

\* A hold released by its expiry whose settlement was processed afterwards.
C5_Witness ==
  /\ \E i \in DOMAIN hist.released :
       /\ hist.released[i].by = "hold_expiry"
       /\ \E j \in DOMAIN hist.settled : hist.settled[j].txnId = hist.released[i].txnId
  /\ \E i \in DOMAIN hist.released : hist.released[i].by = "settlement"

C7_ExposureStartsAtApproval ==
  \A i \in DOMAIN exposureEvents :
     exposureEvents[i].startSec = hist.approvalTime[hist.exposureTxn[i]]

\* ---------------------------------------------------------------- C8
\* C8: an ExposureEvent is emitted exactly when, in off-chain-hold mode, a
\* settlement resolves as not confirmed or with a settlement time above
\* settlementSlaSec: one per such settlement, in order, none for a settlement
\* confirmed within the SLA and none in wait-on-chain mode.
C8_Exposed(r) ==
  r.mode = "offchain_hold" /\ (~r.confirmed \/ r.timeSec > spec.settlementSlaSec)

C8_ExposureExactlyOnFailOrLate ==
  /\ hist.exposureTxn = TxnIdsOf(SelectSeq(hist.settled, C8_Exposed))
  /\ Len(exposureEvents) = Len(hist.exposureTxn)
  /\ \A i \in DOMAIN exposureEvents :
       \E j \in DOMAIN hist.settled :
          /\ hist.settled[j].txnId = hist.exposureTxn[i]
          /\ exposureEvents[i].amount = hist.settled[j].amount
          /\ exposureEvents[i].userId = hist.settled[j].userId
  /\ spec.mode = "wait_on_chain" => exposureEvents = << >>

\* A run with a settlement confirmed within the SLA (no exposure), one
\* confirmed late and one not confirmed (an exposure each).
C8_Witness ==
  /\ spec.mode = "offchain_hold"
  /\ \E j \in DOMAIN hist.settled :
       hist.settled[j].confirmed /\ hist.settled[j].timeSec <= spec.settlementSlaSec
  /\ \E j \in DOMAIN hist.settled :
       hist.settled[j].confirmed /\ hist.settled[j].timeSec > spec.settlementSlaSec
  /\ Len(exposureEvents) = 1

\* ---------------------------------------------------------------- C9
\* C9 as stated: at the end of a run, approvals + declines + timeouts =
\* purchases generated - purchases skipped for insufficient funds - fraud
\* attempts auto-declined before latency is simulated.
C9_SkippedForFunds == ctr.insufficientFundsSkipped + hist.preSkipped

C9_Original ==
  pc = "done" =>
    Len(approvals) + Len(declines) + Len(timeouts)
      = txnId - C9_SkippedForFunds - hist.autoDeclined

\* C9 amended: at the end of a run, approvals + declines + timeouts =
\* purchases generated - purchases skipped for insufficient funds; the fraud
\* attempts auto-declined before latency are counted among the declines; and
\* every purchase not skipped is in exactly one of the three lists, once.
C9_Conservation ==
  /\ hist.autoDeclined <= Len(declines)
  /\ NoDuplicates(approvals \o declines \o timeouts)
  /\ pc = "done" =>
       Len(approvals) + Len(declines) + Len(timeouts) = txnId - C9_SkippedForFunds

\* A finished run of two purchases: an auto-declined fraud attempt, and a
\* purchase that ended as an approval or a timeout.
C9_Witness ==
  /\ pc = "done"
  /\ hist.autoDeclined > 0
  /\ Len(timeouts) + Len(approvals) > 0
  /\ txnId = MaxPurchases

\* ---------------------------------------------------------------- C10
\* C10: every purchase dropped for insufficient funds increments
\* insufficientFundsSkipped exactly once, the drop at the start of the
\* purchase handler (balance - holds <= 0) included, so that at the end of a
\* run purchases generated = approvals + declines + timeouts +
\* insufficientFundsSkipped.
C10_EveryDropCounted ==
  /\ hist.preSkipped = 0
  /\ pc = "done" =>
       txnId = Len(approvals) + Len(declines) + Len(timeouts) + ctr.insufficientFundsSkipped

\* ---------------------------------------------------------------- C11
\* C11: overspendPrevented counts exactly the purchases dropped for
\* insufficient available balance whose user's unencumbered balance covered
\* the amount (balance >= amount > balance - holdTotal), the drop at the start
\* of the purchase handler included; hence overspendPrevented <=
\* insufficientFundsSkipped.
C11_CoveredButReserved(r) ==
  r.balance >= r.amount /\ r.amount > r.balance - r.holdTotal

C11_OverspendCountedExactly ==
  /\ ctr.overspendPrevented = Len(SelectSeq(hist.skipped, C11_CoveredButReserved))
  /\ ctr.overspendPrevented <= ctr.insufficientFundsSkipped

\* ---------------------------------------------------------------- C20
\* C20: for every maxRetries >= 0, simulateSettlement makes at most
\* maxRetries + 1 inclusion attempts and then returns, and in the result it
\* returns exactly one of confirmed and gaveUp is true and retries <=
\* maxRetries.
C20_Bounded ==
  pc = "settle" /\ stl.pc # "idle" =>
    /\ stl.attempts <= stl.stellar.maxRetries + 1
    /\ stl.retries <= stl.stellar.maxRetries
    /\ stl.pc = "returned" =>
         /\ stl.result.confirmed # stl.result.gaveUp
         /\ stl.result.retries <= stl.stellar.maxRetries
         /\ stl.result.retries = stl.retries

C20_TerminatesWithinRetryBudget ==
  /\ []C20_Bounded
  /\ <>(stl.pc = "returned")

\* A call that used its whole retry budget of MaxRetriesBound and gave up on
\* the last attempt.
C20_Witness ==
  /\ stl.pc = "returned"
  /\ stl.stellar.maxRetries = MaxRetriesBound
  /\ stl.attempts = MaxRetriesBound + 1
  /\ stl.result.gaveUp
  /\ stl.result.retries = MaxRetriesBound

C13_PoolAgreesWithSequential ==
  \A b \in DOMAIN batches :
     batches[b].returned =>
        aggregateRunResults(batches[b].sp, batches[b].results)
          = aggregateRunResults(batches[b].sp,
                                runSimulationRuns(batches[b].sp, 0, batches[b].totalRuns))

\* ---------------------------------------------------------------- C14
\* The single run result whose counters are the sums and whose raw sample
\* arrays are the concatenations of those of a and b.
MergeTwo(a, b) ==
  [metrics |-> [f \in DOMAIN a.metrics |-> a.metrics[f] + b.metrics[f]],
   settlementTimes |-> a.settlementTimes \o b.settlementTimes,
   authTimes |-> a.authTimes \o b.authTimes,
   exposureEvents |-> a.exposureEvents \o b.exposureEvents,
   retries |-> a.retries \o b.retries,
   exposureDurations |-> a.exposureDurations \o b.exposureDurations,
   pendingHoldSamples |-> a.pendingHoldSamples \o b.pendingHoldSamples,
   preAuthMismatchCount |-> a.preAuthMismatchCount + b.preAuthMismatchCount,
   preAuthCount |-> a.preAuthCount + b.preAuthCount,
   incrementalAuthSuccessCount |-> a.incrementalAuthSuccessCount + b.incrementalAuthSuccessCount,
   incrementalAuthCount |-> a.incrementalAuthCount + b.incrementalAuthCount,
   fraudAttempts |-> a.fraudAttempts + b.fraudAttempts,
   fraudApprovals |-> a.fraudApprovals + b.fraudApprovals]

RECURSIVE MergeRuns(_)
MergeRuns(runList) ==
  IF runList = << >> THEN EmptyRunResult
  ELSE MergeTwo(Head(runList), MergeRuns(Tail(runList)))

\* C14: aggregating the runs of two batches A and B together gives the same
\* counts, rates and percentiles as aggregating the one run result whose
\* counters are the sums and whose sample arrays are the concatenations of
\* those of the A + B runs, and every aggregated percentile is the percentile
\* of the merged raw samples.  Checked on every split of the run list an
\* execution has gathered so far.
C14_MergeConsistent ==
  \A n \in DOMAIN exec :
     \A k \in 0 .. Len(exec[n].runList) :
        LET runList == exec[n].runList
            batchA == SubSeq(runList, 1, k)
            batchB == SubSeq(runList, k + 1, Len(runList))
            together == aggregateRunResults(spec, batchA \o batchB)
            merged == MergeTwo(MergeRuns(batchA), MergeRuns(batchB))
        IN /\ together = aggregateRunResults(spec, <<merged>>)
           /\ together.metrics.p95SettlementTimeSec = percentile(merged.settlementTimes, P95)
           /\ together.metrics.p95AuthTimeSec = percentile(merged.authTimes, P95)
           /\ together.metrics.retryP95 = percentile(merged.retries, P95)
           /\ together.metrics.exposureDurationP95Sec
                = percentile(merged.exposureDurations, P95)
           /\ \A p \in DOMAIN together.settlementPercentiles :
                together.settlementPercentiles[p] = percentile(merged.settlementTimes, p)

\* Three runs have been gathered, of which one settled nothing and two
\* settled in different times: the per-run percentiles differ from the merged
\* one.
C14_Witness ==
  \E n \in DOMAIN exec :
     /\ Len(exec[n].runList) = MaxRuns
     /\ \E i, j, k \in DOMAIN exec[n].runList :
          /\ exec[n].runList[i].settlementTimes = << >>
          /\ exec[n].runList[j].settlementTimes # << >>
          /\ exec[n].runList[k].settlementTimes # << >>
          /\ exec[n].runList[j].settlementTimes # exec[n].runList[k].settlementTimes

\* ---------------------------------------------------------------- C15
\* The three fraud metrics of a result, and its three NoLimits metrics.
FraudMetricsOf(metrics) ==
  <<metrics.fraudApprovalRate, metrics.fraudExposureTotal, metrics.fraudLossTotal>>

NoLimitsMetricsOf(metrics) ==
  <<metrics.fraudApprovalRateNoLimits, metrics.fraudExposureTotalNoLimits,
    metrics.fraudLossTotalNoLimits>>

\* The full run set of sp over run indices 0 .. totalRuns - 1.
FullRunSet(sp) ==
  aggregateRunResults(sp, [i \in 1 .. Max(1, sp.monteCarloRuns) |->
                             simulateOnce(sp, sp.seed, i - 1)])

\* What the NoLimits metrics of a result of the current spec have to be.
C15_Holds(result) ==
  LET primary == FullRunSet(spec)
      counterfactual == FullRunSet([spec EXCEPT !.spendLimitsEnabled = FALSE])
  IN /\ FraudMetricsOf(result.metrics) = FraudMetricsOf(primary.metrics)
     /\ NoLimitsMetricsOf(result.metrics) =
          IF spec.fraudEnabled /\ spec.spendLimitsEnabled
            THEN FraudMetricsOf(counterfactual.metrics)
            ELSE FraudMetricsOf(primary.metrics)

\* C15: the result of a finished run set (runSimulation,
\* runSimulationWithProgress, handleRun) carries as NoLimits metrics the
\* three fraud metrics of a second full run set over the same seed and run
\* indices with only spendLimits.enabled set to false when fraud.enabled and
\* spendLimits.enabled are both true, and its own three fraud metrics in
\* every other case; its other metrics are those of the primary run set.
C15_NoLimitsCounterfactual ==
  /\ \A n \in DOMAIN exec : exec[n].phase = "done" => C15_Holds(exec[n].result)
  /\ \A j \in DOMAIN jobs : jobs[j].phase = "done" => C15_Holds(jobs[j].result)

\* A run set with both switches on has finished, and lifting the limits
\* changed the fraud metrics.
C15_Witness ==
  /\ spec.fraudEnabled
  /\ spec.spendLimitsEnabled
  /\ \E n \in DOMAIN exec :
       /\ exec[n].phase = "done"
       /\ exec[n].api = "runSimulation"
       /\ NoLimitsMetricsOf(exec[n].result.metrics) # FraudMetricsOf(exec[n].result.metrics)
       /\ exec[n].result.metrics.fraudLossTotalNoLimits > 0

\* ---------------------------------------------------------------- C16
\* The requests posted to the workers of batch b, in worker order.
RequestsOf(b) == [i \in DOMAIN batches[b].workerIds |-> workers[batches[b].workerIds[i]]]

\* C16: every batch uses min(parallelism, totalRuns) workers, gives every
\* worker at least one run, gives the first (totalRuns mod workerCount)
\* workers exactly one run more than the others, and the run-index ranges
\* [startIndex, startIndex + runs) of its requests are pairwise disjoint and
\* cover exactly 0 .. totalRuns - 1.
C16_Partition ==
  \A b \in DOMAIN batches :
     LET requests == RequestsOf(b)
         totalRuns == batches[b].totalRuns
         workerCount == Len(requests)
         remainder == totalRuns % workerCount
         parallelism == IF hardwareConcurrency = 0 THEN 4 ELSE hardwareConcurrency
     IN /\ totalRuns >= 1
        /\ workerCount = IF parallelism < totalRuns THEN parallelism ELSE totalRuns
        /\ \A i \in DOMAIN requests : requests[i].runs >= 1
        /\ \A i \in DOMAIN requests : requests[i].workerId = i - 1
        /\ \A i, j \in DOMAIN requests :
             requests[i].runs = requests[j].runs
               + (IF i <= remainder /\ j > remainder THEN 1
                  ELSE IF j <= remainder /\ i > remainder THEN -1 ELSE 0)
        /\ \A i \in DOMAIN requests :
             /\ requests[i].startIndex >= 0
             /\ requests[i].startIndex + requests[i].runs <= totalRuns
        /\ \A x \in 0 .. totalRuns - 1 :
             Cardinality({i \in DOMAIN requests :
                            /\ requests[i].startIndex <= x
                            /\ x < requests[i].startIndex + requests[i].runs}) = 1

\* A batch of three runs on two workers: the first worker has two runs, the
\* second one.
C16_Witness ==
  \E b \in DOMAIN batches :
     /\ batches[b].totalRuns = 3
     /\ Len(batches[b].workerIds) = 2
     /\ RequestsOf(b)[1].runs = 2
     /\ RequestsOf(b)[2].runs = 1
     /\ RequestsOf(b)[2].startIndex = 2

\* ---------------------------------------------------------------- C17
\* What is true of the progress values in every state: the completed count
\* of a live batch is the sum of the latest counts of its workers and lies in
\* 0 .. totalRuns (so the value reported, completed / totalRuns, is in
\* [0, 1]), and is totalRuns when the batch returns; the values
\* runSimulationWithProgress reported start at 0, lie in [0, 1], never
\* decrease, and end at 1.
C17_ProgressInRange ==
  /\ \A b \in DOMAIN batches :
       ~batches[b].discarded =>
          /\ batches[b].progress = SumSeq(batches[b].progressByWorker)
          /\ batches[b].progress >= 0
          /\ batches[b].progress <= batches[b].totalRuns
          /\ batches[b].returned => batches[b].progress = batches[b].totalRuns
  /\ \A n \in DOMAIN exec :
       exec[n].api = "runSimulationWithProgress" =>
          LET reported == exec[n].reported
          IN /\ reported[1] = <<0, 1>>
             /\ \A i \in DOMAIN reported :
                  /\ FracLeq(<<0, 1>>, reported[i])
                  /\ FracLeq(reported[i], <<1, 1>>)
             /\ \A i \in 1 .. Len(reported) - 1 : FracLeq(reported[i], reported[i + 1])
             /\ exec[n].phase = "done" => reported[Len(reported)] = <<1, 1>>

\* No step lowers the completed count of a batch that is not discarded.
C17_ProgressStep ==
  \A b \in DOMAIN batches :
     ~batches'[b].discarded => batches'[b].progress >= batches[b].progress

\* C17: under any interleaving of the progress messages of the workers of a
\* batch, the progress reported to the caller is the sum of the workers'
\* latest completed counts over the total runs, stays within [0, 1] and
\* never decreases; the same holds for runSimulationWithProgress across its
\* primary and counterfactual phases, which ends at 1.
C17_ProgressMonotone == []C17_ProgressInRange /\ [][C17_ProgressStep]_vars

\* The progress messages of two workers were interleaved: the first worker
\* of a batch of three runs has reported one of its two runs, the second its
\* only run, and two of three runs are reported complete.
C17_Witness ==
  \E b \in DOMAIN batches :
     /\ ~batches[b].discarded
     /\ batches[b].totalRuns = 3
     /\ batches[b].progressByWorker = <<1, 1>>
     /\ batches[b].progress = 2

\* ---------------------------------------------------------------- C18
\* C18: for its request {spec, startIndex, runs, workerId}, a worker executes
\* the run indices startIndex .. startIndex + runs - 1 one after the other in
\* that order, posts exactly `runs` progress messages with completed = 1, 2,
\* .., runs, each when exactly that many runs are finished, and then exactly
\* one result message that holds the `runs` run results in index order;
\* nothing follows the result message, and the main thread receives the
\* messages in the order they were posted.
C18_WorkerProtocol ==
  \A k \in DOMAIN workers :
     LET w == workers[k]
         indices == [i \in 1 .. w.runs |-> w.startIndex + i - 1]
     IN ~w.terminated =>
          /\ ~w.finished => w.sent = << >>
          /\ w.finished =>
               /\ Len(w.sent) = w.runs + 1
               /\ w.done = indices
               /\ \A c \in 1 .. w.runs :
                    /\ w.sent[c] = [type |-> "progress", workerId |-> w.workerId,
                                    completed |-> c, total |-> w.runs, data |-> << >>]
                    /\ w.doneAtPost[c] = SubSeq(indices, 1, c)
               /\ w.sent[w.runs + 1].type = "result"
               /\ w.sent[w.runs + 1].workerId = w.workerId
               /\ w.sent[w.runs + 1].data =
                    [i \in 1 .. w.runs |-> simulateOnce(w.sp, w.sp.seed, indices[i])]
               /\ w.doneAtPost[w.runs + 1] = indices
          /\ \E d \in 0 .. Len(w.sent) : w.outbox = SubSeq(w.sent, d + 1, Len(w.sent))

\* A worker asked for two runs has posted its result message, and one asked
\* for the run of index 2 has too.
C18_Witness ==
  /\ \E k \in DOMAIN workers :
       /\ workers[k].runs = 2
       /\ workers[k].finished
       /\ Len(workers[k].sent) = 3
  /\ \E k \in DOMAIN workers :
       /\ workers[k].startIndex = 2
       /\ workers[k].finished
       /\ workers[k].sent[Len(workers[k].sent)].type = "result"

\* ---------------------------------------------------------------- C19
\* In every state: a terminated worker delivers nothing, every run result a
\* batch has gathered was delivered by one of that batch's own workers and is
\* the run of the batch's spec that worker was asked for, and a batch whose
\* workers were discarded has returned nothing.
C19_OwnResultsOnly ==
  /\ \A k \in DOMAIN workers : workers[k].terminated => workers[k].outbox = << >>
  /\ \A b \in DOMAIN batches :
       /\ Len(batches[b].resultFrom) = Len(batches[b].results)
       /\ \A i \in DOMAIN batches[b].results :
            LET k == batches[b].resultFrom[i]
            IN /\ \E x \in DOMAIN batches[b].workerIds : batches[b].workerIds[x] = k
               /\ workers[k].batch = b
               /\ \E r \in workers[k].startIndex .. workers[k].startIndex + workers[k].runs - 1 :
                    batches[b].results[i] = simulateOnce(batches[b].sp, batches[b].sp.seed, r)
       /\ batches[b].discarded => ~batches[b].returned /\ batches[b].results = << >>

\* A step that starts a batch leaves every worker that was live terminated
\* and out of workersRef, and the workers it creates are new ones.
C19_StartStep ==
  Len(batches') > Len(batches) =>
     /\ \A i \in DOMAIN workersRef :
          /\ workers'[workersRef[i]].terminated
          /\ \A x \in DOMAIN workersRef' : workersRef'[x] # workersRef[i]
     /\ \A x \in DOMAIN workersRef' :
          /\ workersRef'[x] > Len(workers)
          /\ ~workers'[workersRef'[x]].terminated
          /\ workers'[workersRef'[x]].batch = Len(batches')
     /\ \A k \in DOMAIN workers' :
          ~workers'[k].terminated => \E x \in DOMAIN workersRef' : workersRef'[x] = k

\* C19: when a batch is started while workers of a previous batch are still
\* live, every one of those workers is terminated before any worker of the new
\* batch is created, and no run result produced by the discarded batch is
\* ever included in the results returned for the new batch.
C19_CancelDiscards == []C19_OwnResultsOnly /\ [][C19_StartStep]_vars

\* A batch was started while the workers of the previous one were live, and
\* has returned its three runs.
C19_Witness ==
  \E b \in DOMAIN batches :
     /\ b > 1
     /\ batches[b - 1].discarded
     /\ batches[b].returned
     /\ batches[b].workerCount > 1
     /\ Len(batches[b].results) = 3

\* ---------------------------------------------------------------- C21
\* C21: a non-included attempt gives up when retries >= maxRetries or the
\* elapsed time exceeds maxSettleWindowSec and only otherwise increments
\* retries and adds the backoff, so that in every returned result retries is
\* the number of inclusion attempts made minus one.
C21_RetriesCountAttempts ==
  stl.pc = "returned" => stl.result.retries = stl.attempts - 1

\* ---------------------------------------------------------------- C22
\* C22: a settlement is degraded by the outage exactly when the outage is
\* enabled and its start time t satisfies
\* startHour * 3600 <= t < (startHour + durationHours) * 3600: not when it
\* starts exactly at the end of the window, and never when durationHours = 0.
C22_OutageWindowHalfOpen ==
  stl.pc # "idle" =>
     LET windowStart == stl.outage.startHour * SecPerHour * UnitsPerSec
         windowEnd == (stl.outage.startHour + stl.outage.durationHours)
                        * SecPerHour * UnitsPerSec
         degraded == /\ stl.outage.enabled
                     /\ windowStart <= stl.startTimeSec
                     /\ stl.startTimeSec < windowEnd
     IN /\ stl.inOutage <=> degraded
        /\ stl.inclusionProb =
             Min(999, Max(0, stl.stellar.inclusionProbability
                               * (IF degraded THEN stl.outage.inclusionProbabilityMultiplier
                                  ELSE 1)))

\* ---------------------------------------------------------------- C23
\* C23: for any inclusionProbability and any outage multipliers, the
\* inclusion probability simulateSettlement uses lies in [0, 0.999] and the
\* effective submission delay is non-negative, so that the elapsed time, and
\* the timeSec of the returned result, is never negative.
C23_ClampedBeforeUse ==
  stl.pc # "idle" =>
     /\ stl.inclusionProb >= 0
     /\ stl.inclusionProb <= 999
     /\ stl.timeSec >= 0
     /\ stl.pc = "returned" => stl.result.timeSec >= 0

\* ---------------------------------------------------------------- C27
\* v is the nearest-rank p-th percentile (p in hundredths) of the samples:
\* the smallest element such that at least the fraction p of the elements
\* are <= it; 0 for no samples.
IsNearestRank(v, samples, p) ==
  LET atMost(w) == Cardinality({i \in DOMAIN samples : samples[i] <= w})
  IN IF samples = << >> THEN v = 0
     ELSE /\ \E i \in DOMAIN samples : samples[i] = v
          /\ atMost(v) * 100 >= p * Len(samples)
          /\ \A i \in DOMAIN samples :
               samples[i] < v => atMost(samples[i]) * 100 < p * Len(samples)

\* C27: percentile(values, p) is the nearest-rank p-th percentile of values,
\* the smallest element v such that at least a fraction p of the elements are
\* <= v, and 0 for an empty input.  Stated of the settlement percentiles of
\* every finished single-phase run set against the settlement times of its
\* runs.
C27_PercentileNearestRank ==
  \A n \in DOMAIN exec :
     (exec[n].phase = "done" /\ ~HasAlt(spec)) =>
        LET samples == Flatten([i \in DOMAIN exec[n].runList |->
                                  exec[n].runList[i].settlementTimes])
        IN /\ \A p \in DOMAIN exec[n].result.settlementPercentiles :
                IsNearestRank(exec[n].result.settlementPercentiles[p], samples, p)
           /\ IsNearestRank(exec[n].result.metrics.p95SettlementTimeSec, samples, 95)

\* ---------------------------------------------------------------- C28
\* C28: in wait-on-chain mode the AuthorizationContext of a transaction is
\* removed from authContext when the settlement event of that transaction is
\* processed, on every branch, and once the event queue is empty authContext
\* is empty.
C28_AuthContextConsumed ==
  spec.mode = "wait_on_chain" =>
     /\ \A i \in DOMAIN hist.settled : hist.settled[i].txnId \notin DOMAIN authContext
     /\ pc = "done" => authContext = EmptyMap

\* ---------------------------------------------------------------- C29
\* The sum of the amounts of the holds of holdByTxn whose key is in ids and
\* whose user is u.
RECURSIVE LiveHoldSum(_, _)
LiveHoldSum(ids, u) ==
  IF ids = {} THEN 0
  ELSE LET id == CHOOSE x \in ids : TRUE
       IN (IF holdByTxn[id].userId = u THEN holdByTxn[id].amount ELSE 0)
            + LiveHoldSum(ids \ {id}, u)

\* C29: at every point of a run and for every user u, holdTotals[u] is the
\* sum of the amounts of u's live holds (the entries of holdByTxn) and
\* holdCounts[u] the number of those entries; once the event queue is empty
\* holdByTxn is empty and every hold total and hold count is 0.
C29_HoldsMirrored ==
  /\ \A u \in Users :
       /\ holdTotals[u] = LiveHoldSum(DOMAIN holdByTxn, u)
       /\ holdCounts[u] = Cardinality({id \in DOMAIN holdByTxn : holdByTxn[id].userId = u})
  /\ pc = "done" =>
       /\ holdByTxn = EmptyMap
       /\ \A u \in Users : holdTotals[u] = 0 /\ holdCounts[u] = 0

\* ---------------------------------------------------------------- C30
\* C30: when a completion event has a positive delta and incremental holds
\* are allowed, the user's hold is enlarged by the delta, and the
\* incremental authorization counted as a success, only if both the
\* spend-limit check and the available-balance check pass for the delta; if
\* the spend-limit check fails the hold total is left unchanged.
C30_CompletionStep ==
  (pc = "loop" /\ popCount' = popCount + 1 /\ current'.type = "completion") =>
     LET userId == current'.userId
         delta == current'.amount - current'.relatedAmount
         limitsPass == canApproveWithLimits(St, userId, delta, current'.timeSec)
         fundsPass == balances[userId] - holdTotals[userId] >= delta
     IN (delta > 0 /\ spec.allowIncremental) =>
          /\ holdTotals'[userId] # holdTotals[userId] => limitsPass /\ fundsPass
          /\ ctr'.incrementalAuthSuccessCount # ctr.incrementalAuthSuccessCount
               => limitsPass /\ fundsPass
          /\ ~limitsPass => holdTotals'[userId] = holdTotals[userId]

C30_EnlargedOnlyIfBothPass == [][C30_CompletionStep]_vars

\* ---------------------------------------------------------------- C25
\* The shape of a ScenarioSpec: every required field is there.
IsScenarioSpec(sp) == sp.seed # Undefined

\* C25: a malformed ScenarioSpec (imported JSON that parses but lacks a
\* required field) is rejected before any run starts: it never becomes the
\* active scenario and no run is executed on it.
C25_MalformedSpecRejected ==
  /\ IsScenarioSpec(spec)
  /\ \A b \in DOMAIN batches : IsScenarioSpec(batches[b].sp)
  /\ \A k \in DOMAIN workers : workers[k].finished => IsScenarioSpec(workers[k].sp)

\* ====================================================================
\* The sampling helpers (sampling.ts) on their own.
\* Real numbers are fixed-point numbers in thousandths.
Milli == 1000

MulM(x, y) == (x * y) \div Milli

DivM(x, y) == (x * Milli) \div y

Abs(x) == IF x < 0 THEN 0 - x ELSE x

\* Math.sqrt of a number in thousandths: the integer root of x * Milli.
RECURSIVE SqrtSearch(_, _, _)
SqrtSearch(n, low, high) ==
  IF low >= high THEN low
  ELSE LET mid == (low + high + 1) \div 2 IN
       IF mid * mid <= n THEN SqrtSearch(n, mid, high) ELSE SqrtSearch(n, low, mid - 1)

Sqrt(x) == IF x <= 0 THEN 0 ELSE SqrtSearch(x * Milli, 0, 46340)

\* Math.log(2)
LnTwo == 693

\* Math.log(0)
MinusInfinity == -1000000

\* Math.log: halving or doubling into [1, 2), then 2 * atanh((x-1)/(x+1)).
RECURSIVE Ln(_)
Ln(x) ==
  IF x <= 0 THEN MinusInfinity
  ELSE IF x >= 2 * Milli THEN LnTwo + Ln(x \div 2)
  ELSE IF x < Milli THEN Ln(2 * x) - LnTwo
  ELSE LET y == DivM(x - Milli, x + Milli)
           y2 == MulM(y, y)
           y3 == MulM(y2, y)
           y5 == MulM(y3, y2)
           y7 == MulM(y5, y2)
       IN 2 * (y + y3 \div 3 + y5 \div 5 + y7 \div 7)

\* Math.exp: reduction by Math.log(2), then the power series.
RECURSIVE Exp(_)
Exp(x) ==
  IF x >= LnTwo THEN 2 * Exp(x - LnTwo)
  ELSE IF x < 0 THEN Exp(x + LnTwo) \div 2
  ELSE LET t2 == MulM(x, x) \div 2
           t3 == MulM(t2, x) \div 3
           t4 == MulM(t3, x) \div 4
           t5 == MulM(t4, x) \div 5
       IN Milli + x + t2 + t3 + t4 + t5

\* Math.pow(base, exponent) for base >= 0
PowM(base, exponent) == IF base <= 0 THEN 0 ELSE Exp(MulM(Ln(base), exponent))

\* z = 1.6448536269514722 (line 14)
Z == 1645

\* 1e-12 (lines 8, 9, 21, 142), in thousandths
Tiny == 0

\* lognormalParamsFromMeanP95 (lines 13-24), for mean > 0 and p95 > 0
lognormalParamsFromMeanP95(mean, p95) ==
  LET lnMean == Ln(mean)
      lnP95 == Ln(p95)
      b == 0 - Z
      c == lnP95 - lnMean
      disc == MulM(b, b) - 2 * c
      sigma == (0 - b) + Sqrt(Max(disc, Tiny))
      mu == lnMean - MulM(sigma, sigma) \div 2
  IN [mu |-> mu, sigma |-> sigma]

\* sampleLognormal (lines 26-33); n is the value of normalSample(rng)
sampleLognormal(n, mean, p95) ==
  IF mean <= 0 \/ p95 <= 0 THEN 0
  ELSE LET params == lognormalParamsFromMeanP95(mean, p95) IN
       Exp(params.mu + MulM(params.sigma, n))

\* The shapes the bisection of gammaParamsFromMeanP95 can end on lie between
\* low = 0.2 and high = 20 (lines 122-123).
ShapeDraws == {500, 1000, 4000}

\* gammaParamsFromMeanP95 (lines 120-137): the values it can return.  The
\* bisection over gammaQuantile is not computed: its result is any shape
\* between the two starting ends, with scale = mean / shape.
gammaParamsFromMeanP95(mean, p95) ==
  IF mean <= 0 \/ p95 <= 0 THEN { [shape |-> Milli, scale |-> Milli] }
  ELSE { [shape |-> shape, scale |-> DivM(mean, shape)] : shape \in ShapeDraws }

\* The values of normalSample(rng) (lines 7-11) explored.
NormalDraws == {-2500, -1000, 0, 1000, 2500}

\* The (mean, p95) values explored: non-positive ones, p95 below the mean,
\* and p95 / mean below and above exp(z * z / 2).
MeanDraws == {-1000, 0, 2000}

P95Draws == {-1000, 0, 1000, 5000, 20000}

DistributionSpecs ==
  { [type |-> type, mean |-> mean, p95 |-> p95] :
      type \in {"lognormal", "gamma"}, mean \in MeanDraws, p95 \in P95Draws }

\* The (shape, scale) arguments of direct calls of sampleGamma.
GammaShapeDraws == {0} \cup ShapeDraws

GammaScaleDraws == {1000, 2000}

\* Iterations of the rejection loop of sampleGamma explored.
MaxSampleAttempts == 2

SampleReturn(s, result) == [s EXCEPT !.pc = "returned", !.result = result]

\* sampleGamma (lines 139-146) up to its loop; u is the value of rng() read
\* by the shape < 1 branch, whose recursive call runs the loop with shape + 1
\* and whose factor Math.pow(u, 1 / shape) multiplies what the loop returns.
sampleGammaEnter(s, shape, scale, u) ==
  IF shape <= 0 THEN SampleReturn([s EXCEPT !.shape = shape, !.scale = scale], 0)
  ELSE IF shape < Milli
    THEN [s EXCEPT !.pc = "loop", !.shape = shape + Milli, !.scale = scale,
                   !.factor = PowM(Max(u, Tiny), DivM(Milli, shape))]
    ELSE [s EXCEPT !.pc = "loop", !.shape = shape, !.scale = scale, !.factor = Milli]

\* Math.log(u) < bound
LogLess(u, bound) == IF u <= 0 THEN TRUE ELSE Ln(u) < bound

\* One iteration of the loop of sampleGamma (lines 147-157).
sampleGammaLoopBody(s, x, u) ==
  LET d == s.shape - Milli \div 3
      c == DivM(Milli, Sqrt(9 * d))
      v1 == Milli + MulM(c, x)
      v == MulM(MulM(v1, v1), v1)
      x2 == MulM(x, x)
      x4 == MulM(x2, x2)
      accepted == MulM(MulM(MulM(s.scale, d), v), s.factor)
      counted == [s EXCEPT !.attempts = @ + 1]
  IN IF v1 <= 0 THEN counted
     ELSE IF u < Milli - (331 * x4) \div 10000 THEN SampleReturn(counted, accepted)
     ELSE IF LogLess(u, x2 \div 2 + MulM(d, Milli - v + Ln(v)))
       THEN SampleReturn(counted, accepted)
     ELSE counted

SampleInit ==
  /\ pc = "sample"
  /\ spec = BaseSpec
  /\ balances = [u \in Users |-> 0]
  /\ initialBalances = balances
  /\ InitCommon
  /\ stl = NoStl
  /\ smp = NoSmp
  /\ hardwareConcurrency = 0
  /\ OrchIdle

sampleVars ==
  <<pc, spec, events, current, popCount, txnId, bootUser, bootT, initialBalances,
    runVars, hist, stl, orchVars>>

\* sampleDistribution (lines 160-166) is called: the lognormal kind returns
\* in the call, the gamma kind enters sampleGamma with the fitted parameters.
SampleDistributionCall ==
  /\ pc = "sample"
  /\ smp.pc = "idle"
  /\ \E dist \in DistributionSpecs :
       LET s0 == [NoSmp EXCEPT !.fn = "sampleDistribution", !.dist = dist,
                               !.mean = dist.mean, !.p95 = dist.p95] IN
       IF dist.type = "gamma"
         THEN \E params \in gammaParamsFromMeanP95(dist.mean, dist.p95), u \in UniformDraws :
                smp' = sampleGammaEnter(s0, params.shape, params.scale, u)
         ELSE \E n \in NormalDraws :
                smp' = SampleReturn(s0, sampleLognormal(n, dist.mean, dist.p95))
  /\ UNCHANGED sampleVars

\* sampleGamma (lines 139-158) is called on its own.
SampleGammaCall ==
  /\ pc = "sample"
  /\ smp.pc = "idle"
  /\ \E shape \in GammaShapeDraws, scale \in GammaScaleDraws, u \in UniformDraws :
       smp' = sampleGammaEnter([NoSmp EXCEPT !.fn = "sampleGamma"], shape, scale, u)
  /\ UNCHANGED sampleVars

\* One iteration of the rejection loop.
SampleGammaAttempt ==
  /\ pc = "sample"
  /\ smp.pc = "loop"
  /\ smp.attempts < MaxSampleAttempts
  /\ \E x \in NormalDraws, u \in UniformDraws : smp' = sampleGammaLoopBody(smp, x, u)
  /\ UNCHANGED sampleVars

\* lognormalParamsFromMeanP95 is called on its own, with positive arguments.
LognormalFitCall ==
  /\ pc = "sample"
  /\ smp.pc = "idle"
  /\ \E mean \in MeanDraws, p95 \in P95Draws :
       /\ mean > 0
       /\ p95 > 0
       /\ LET params == lognormalParamsFromMeanP95(mean, p95) IN
          smp' = [NoSmp EXCEPT !.pc = "returned", !.fn = "lognormalParamsFromMeanP95",
                               !.mean = mean, !.p95 = p95,
                               !.mu = params.mu, !.sigma = params.sigma]
  /\ UNCHANGED sampleVars

SampleNext ==
  \/ SampleDistributionCall
  \/ SampleGammaCall
  \/ SampleGammaAttempt
  \/ LognormalFitCall

SampleSpec == SampleInit /\ [][SampleNext]_vars

\* ---------------------------------------------------------------- C24
\* C24: sampleDistribution returns exactly 0 for every DistributionSpec whose
\* mean or p95 is non-positive, for the lognormal and for the gamma kind.
C24_NonPositiveYieldsZero ==
  (/\ smp.pc = "returned"
   /\ smp.fn = "sampleDistribution"
   /\ (smp.mean <= 0 \/ smp.p95 <= 0))
  => smp.result = 0

\* ---------------------------------------------------------------- C26
\* Equal within one hundredth of the target.  The claim asks for 1e-4; the
\* fixed-point functions above are exact to a few thousandths.
CloseTo(derived, target) == Abs(derived - target) * 100 <= target

\* C26: for every positive (mean, p95), the (mu, sigma) returned by
\* lognormalParamsFromMeanP95 reproduce the mean by exp(mu + 0.5 sigma^2) and
\* the p95 by exp(mu + z sigma).
C26_LognormalRoundTrip ==
  (smp.pc = "returned" /\ smp.fn = "lognormalParamsFromMeanP95")
  => /\ CloseTo(Exp(smp.mu + MulM(smp.sigma, smp.sigma) \div 2), smp.mean)
     /\ CloseTo(Exp(smp.mu + MulM(Z, smp.sigma)), smp.p95)

\* ---------------------------------------------------------------- C31
\* The step that pops a settlement event in the given mode and runs its handler.
SettlementStep(mode) ==
  /\ pc = "loop"
  /\ popCount' = popCount + 1
  /\ current'.type = "settlement"
  /\ spec.mode = mode

C31_OffchainSettlementStep ==
  SettlementStep("offchain_hold") =>
    LET event == current'
        userId == event.userId
        ok == event.settlement.confirmed /\ balances[userId] >= event.amount
        live == event.txnId \in DOMAIN holdByTxn
    IN /\ IF ok
            THEN /\ balances' = [balances EXCEPT ![userId] = @ - event.amount]
                 /\ settlementTimes' = Append(settlementTimes, event.settlement.timeSec)
                 /\ retries' = Append(retries, event.settlement.retries)
            ELSE /\ balances' = balances
                 /\ settlementTimes' = settlementTimes
                 /\ retries' = retries
       /\ event.txnId \notin DOMAIN holdByTxn'
       /\ IF live
            THEN /\ holdTotals' = [holdTotals EXCEPT ![userId] = @ - holdByTxn[event.txnId].amount]
                 /\ holdCounts' = [holdCounts EXCEPT ![userId] = Max(0, @ - 1)]
                 /\ holdByTxn' = MapDelete(holdByTxn, event.txnId)
            ELSE /\ holdTotals' = holdTotals
                 /\ holdCounts' = holdCounts
                 /\ holdByTxn' = holdByTxn

\* C31: in off-chain-hold mode a settlement event counts as confirmed
\* (settlement time and retries recorded, balance debited by the event
\* amount) if and only if its on-chain outcome is confirmed and the user's
\* balance at that moment covers the amount; otherwise the balance is left
\* unchanged.  In both cases the transaction's hold, if still live, is released.
C31_OffchainSettlementConfirmedIff == [][C31_OffchainSettlementStep]_vars

\* A run in which one settlement was confirmed and debited, another succeeded
\* on chain but found the balance short, and a live hold was released by a
\* settlement.
C31_Witness ==
  /\ spec.mode = "offchain_hold"
  /\ \E i \in DOMAIN hist.settled : hist.settled[i].confirmed
  /\ \E i \in DOMAIN hist.settled : hist.settled[i].onChain /\ ~hist.settled[i].confirmed
  /\ \E i \in DOMAIN hist.released : hist.released[i].by = "settlement"

\* ---------------------------------------------------------------- C32
C32_WaitOnChainSettlementStep ==
  SettlementStep("wait_on_chain") =>
    LET event == current'
        userId == event.userId
        id == event.txnId
        ctx == authContext[id]
        authTime == (event.timeSec - ctx.requestTime) + ctx.legsOut
        inTime == authTime <= spec.authTimeoutSec
        limitsOk == canApproveWithLimits(St, userId, event.amount, ctx.requestTime)
        day == dayIndex(ctx.requestTime)
        slot == timeslotIndex(ctx.requestTime)
        approved == approvals' # approvals
    IN /\ id \in DOMAIN authContext
       /\ approved =>
            /\ inTime
            /\ event.settlement.confirmed
            /\ limitsOk
            /\ balances[userId] >= event.amount
            /\ balances' = [balances EXCEPT ![userId] = @ - event.amount]
            /\ approvals' = Append(approvals, id)
            /\ authTimes' = Append(authTimes, authTime)
            /\ settlementTimes' = Append(settlementTimes, event.settlement.timeSec)
            /\ retries' = Append(retries, event.settlement.retries)
            /\ spec.spendLimitsEnabled =>
                 /\ MapGetOr(userDailySpend', <<userId, day>>, 0)
                      = MapGetOr(userDailySpend, <<userId, day>>, 0) + event.amount
                 /\ MapGetOr(userTimeslotSpend', <<userId, slot>>, 0)
                      = MapGetOr(userTimeslotSpend, <<userId, slot>>, 0) + event.amount
            /\ declines' = declines
            /\ timeouts' = timeouts
       /\ ~inTime => timeouts' = Append(timeouts, id) /\ declines' = declines /\ ~approved
       /\ (inTime /\ (~event.settlement.confirmed \/ ~limitsOk)) =>
            declines' = Append(declines, id) /\ timeouts' = timeouts /\ ~approved
       /\ ~approved =>
            /\ balances' = balances
            /\ userDailySpend' = userDailySpend
            /\ userTimeslotSpend' = userTimeslotSpend
            /\ authTimes' = authTimes
            /\ settlementTimes' = settlementTimes
            /\ retries' = retries

\* C32: in wait-on-chain mode a transaction is approved (balance debited,
\* approval, authorization time, settlement time and retries recorded,
\* spend-limit usage applied) only if its end-to-end authorization latency is
\* within authTimeoutSec, its settlement is confirmed, the spend limits allow
\* it and the balance covers the amount; a latency above the timeout is a
\* timeout even when the settlement also failed, a failed settlement or a
\* limit violation within the timeout is a decline, and no balance or
\* spend-limit state changes on a non-approval branch.
C32_WaitOnChainApprovalOnlyIf == [][C32_WaitOnChainSettlementStep]_vars

\* A run with limits enabled in which one transaction was approved with
\* return legs in its latency, and another was declined within the timeout
\* because its settlement failed.
C32_Witness ==
  /\ spec.mode = "wait_on_chain"
  /\ spec.spendLimitsEnabled
  /\ pc = "done"
  /\ \E i \in DOMAIN approvals : authTimes[i] > 0 /\ userDailySpend # EmptyMap
  /\ \E i \in DOMAIN hist.settled :
       /\ ~hist.settled[i].onChain
       /\ \E j \in DOMAIN declines : declines[j] = hist.settled[i].txnId

\* ---------------------------------------------------------------- C33
\* The step that pops a purchase in off-chain-hold mode and reaches the
\* decision of lines 383-412 (it was not dropped at line 339 nor auto-declined).
C33_DecisionStep ==
  /\ pc = "loop"
  /\ popCount' = popCount + 1
  /\ current'.type = "purchase"
  /\ spec.mode = "offchain_hold"
  /\ hist'.decision.txnId = current'.txnId

C33_NothingHeld ==
  /\ balances' = balances
  /\ holdTotals' = holdTotals
  /\ holdCounts' = holdCounts
  /\ holdByTxn' = holdByTxn
  /\ userDailySpend' = userDailySpend
  /\ userTimeslotSpend' = userTimeslotSpend
  /\ approvals' = approvals
  /\ authTimes' = authTimes
  /\ events' = MinHeapPop(events).data

C33_OffchainDecisionStep ==
  C33_DecisionStep =>
    LET event == current'
        userId == event.userId
        id == event.txnId
        amount == hist'.decision.amount
        authTime == hist'.decision.authTime
    IN IF authTime > spec.authTimeoutSec
         THEN /\ timeouts' = Append(timeouts, id)
              /\ declines' = declines
              /\ ctr'.limitDeclines = ctr.limitDeclines
              /\ ctr'.insufficientFundsSkipped = ctr.insufficientFundsSkipped
              /\ C33_NothingHeld
       ELSE IF ~canApproveWithLimits(St, userId, amount, event.timeSec)
         THEN /\ declines' = Append(declines, id)
              /\ ctr'.limitDeclines = ctr.limitDeclines + 1
              /\ timeouts' = timeouts
              /\ ctr'.insufficientFundsSkipped = ctr.insufficientFundsSkipped
              /\ C33_NothingHeld
       ELSE IF balances[userId] - holdTotals[userId] < amount
         THEN /\ ctr'.insufficientFundsSkipped = ctr.insufficientFundsSkipped + 1
              /\ declines' = declines
              /\ timeouts' = timeouts
              /\ ctr'.limitDeclines = ctr.limitDeclines
              /\ C33_NothingHeld
       ELSE /\ approvals' = Append(approvals, id)
            /\ authTimes' = Append(authTimes, authTime)
            /\ declines' = declines
            /\ timeouts' = timeouts

C33_AuthTimesWithinTimeout ==
  /\ Len(authTimes) = Len(approvals)
  /\ \A i \in DOMAIN authTimes : authTimes[i] <= spec.authTimeoutSec

\* C33: in off-chain-hold mode the purchase decision checks, in this order,
\* timeout, spend-limit violation (a decline, limitDeclines + 1) and
\* insufficient available balance (skipped); the first failing check gives
\* the single outcome and nothing of balance, hold or spend-limit state
\* changes on a non-approval; every authorization time recorded for an
\* approval, in either mode, is at most authTimeoutSec.
C33_DecisionOrder == []C33_AuthTimesWithinTimeout /\ [][C33_OffchainDecisionStep]_vars

\* A purchase that was late and over the daily limit was counted as a timeout,
\* after an approval of the same user.
C33_Witness ==
  /\ spec.mode = "offchain_hold"
  /\ spec.spendLimitsEnabled
  /\ Len(approvals) = 1
  /\ Len(timeouts) = 1
  /\ hist.decision.txnId = timeouts[1]
  /\ hist.decision.authTime > spec.authTimeoutSec
  /\ \E u \in Users :
       MapGetOr(userDailySpend, <<u, 0>>, 0) + hist.decision.amount > spec.perUserDailyLimit

\* ---------------------------------------------------------------- C34
\* How many events of the (txnId, type) pair the handlers have enqueued so far.
C34_Enqueued(key) == MapGetOr(hist.enqueued, key, 0)

C34_AtMostOnce ==
  /\ \A key \in DOMAIN hist.enqueued : hist.enqueued[key] <= 1
  /\ \A key \in DOMAIN hist.dequeued : hist.dequeued[key] <= 1

C34_PushStep ==
  /\ \A key \in DOMAIN hist'.enqueued :
       hist'.enqueued[key] > C34_Enqueued(key) => key \notin DOMAIN hist'.dequeued
  /\ (pc = "loop" /\ popCount' = popCount + 1 /\ current'.type = "purchase") =>
       LET id == current'.txnId IN
       ~ /\ <<id, "completion">> \in DOMAIN hist'.enqueued
         /\ <<id, "settlement">> \in DOMAIN hist'.enqueued

\* C34: for every transaction id at most one settlement event, at most one
\* completion event and at most one hold_expiry event is ever enqueued during
\* a run, an event that has been popped is never pushed again, and a purchase
\* spawns either a completion or a settlement, never both.
C34_EventsEnqueuedOnce == []C34_AtMostOnce /\ [][C34_PushStep]_vars

\* A finished run in which one transaction had its hold expiry, its
\* completion and its settlement enqueued and popped.
C34_Witness ==
  /\ pc = "done"
  /\ \E id \in 0 .. MaxPurchases - 1 :
       \A type \in {"hold_expiry", "completion", "settlement"} :
         /\ C34_Enqueued(<<id, type>>) = 1
         /\ MapGetOr(hist.dequeued, <<id, type>>, 0) = 1

\* ---------------------------------------------------------------- C35
\* The number of events the handlers have enqueued so far.
RECURSIVE SumCounts(_, _)
SumCounts(m, keys) ==
  IF keys = {} THEN 0
  ELSE LET key == CHOOSE k \in keys : TRUE IN m[key] + SumCounts(m, keys \ {key})

C35_EnqueuedTotal(h) == SumCounts(h.enqueued, DOMAIN h.enqueued)

C35_NoPurchaseEnqueued ==
  /\ \A key \in DOMAIN hist.enqueued : key[2] # "purchase"
  /\ spec.purchaseRate <= 0 => txnId = 0 /\ events = << >>
  /\ pc = "done" => events = << >>

C35_SpawnStep ==
  (pc = "loop" /\ popCount' = popCount + 1) =>
     LET spawned == C35_EnqueuedTotal(hist') - C35_EnqueuedTotal(hist) IN
     /\ current'.type \in {"hold_expiry", "settlement"} => spawned = 0
     /\ current'.type = "completion" => spawned = 1
     /\ current'.type = "purchase" => spawned \in 0 .. 2

C35_WitnessNoPurchases ==
  pc = "done" /\ spec.purchaseRate <= 0 /\ popCount = 0

\* ---------------------------------------------------------------- C36
C36_WithinLimits ==
  spec.spendLimitsEnabled =>
    /\ spec.perUserDailyLimit > 0 =>
         \A key \in DOMAIN userDailySpend : userDailySpend[key] <= spec.perUserDailyLimit
    /\ spec.perUserTimeslotLimit > 0 =>
         \A key \in DOMAIN userTimeslotSpend :
           userTimeslotSpend[key] <= spec.perUserTimeslotLimit

\* The time the handler of the popped event checks the limits at.
C36_CheckTime(event) ==
  IF event.type = "settlement" THEN authContext[event.txnId].requestTime ELSE event.timeSec

\* The spend added under `key` of a spend map is an amount that passed the
\* check of this step, recorded under the key of the check.
C36_Recorded(before, after, event, keyOfCheck) ==
  \A key \in DOMAIN after :
    after[key] # MapGetOr(before, key, 0) =>
      /\ pc = "loop"
      /\ popCount' = popCount + 1
      /\ key = keyOfCheck
      /\ after[key] > MapGetOr(before, key, 0)
      /\ canApproveWithLimits(St, event.userId, after[key] - MapGetOr(before, key, 0),
                              C36_CheckTime(event))

C36_SpendStep ==
  /\ C36_Recorded(userDailySpend, userDailySpend', current',
                  <<current'.userId, dayIndex(C36_CheckTime(current'))>>)
  /\ C36_Recorded(userTimeslotSpend, userTimeslotSpend', current',
                  <<current'.userId, timeslotIndex(C36_CheckTime(current'))>>)
  /\ (spec.spendLimitsEnabled /\ spec.perTransactionLimit > 0 /\ approvals' # approvals) =>
       (IF spec.mode = "wait_on_chain" THEN current'.amount ELSE hist'.decision.amount)
         <= spec.perTransactionLimit

\* C36: with spend limits enabled and positive limits, the spend recorded for
\* any (user, day) never exceeds perUserDailyLimit, the spend recorded for any
\* (user, timeslot) never exceeds perUserTimeslotLimit, and no purchase above
\* perTransactionLimit is approved; spend is recorded only for amounts that
\* passed the check in the same step, under the time key of the check.
C36_SpendWithinLimits == []C36_WithinLimits /\ [][C36_SpendStep]_vars

\* A wait-on-chain approval whose settlement event fell in the timeslot after
\* the one of its request, with the spend recorded in the request's slot, and
\* a second request of the user in that slot declined by the slot limit.
C36_Witness ==
  /\ spec.mode = "wait_on_chain"
  /\ spec.timeslotMinutes = 1
  /\ \E i \in DOMAIN approvals :
       LET ctx == authContext[approvals[i]] IN
       /\ ctx.requestTime < 60
       /\ ctx.issuerDone >= 60
       /\ \E u \in Users : MapGetOr(userTimeslotSpend, <<u, 0>>, 0) = ctx.amount
  /\ userTimeslotSpend # EmptyMap
  /\ \A key \in DOMAIN userTimeslotSpend : key[2] = 0
  /\ ctr.limitDeclines = 1

\* ---------------------------------------------------------------- C37
C37_NonNegative == \A u \in Users : balances[u] >= 0

C37_DebitStep ==
  \A u \in Users :
    balances'[u] # balances[u] =>
      /\ pc = "loop"
      /\ popCount' = popCount + 1
      /\ current'.type = "settlement"
      /\ current'.userId = u
      /\ balances[u] >= current'.amount
      /\ balances'[u] = balances[u] - current'.amount

\* C37: at every point of a run every user's balance is >= 0: balances start
\* non-negative and are only decreased by an amount that the balance covers
\* at the moment of the debit, in both modes and for any interleaving of
\* pending transactions of the same user.
C37_BalancesNonNegative == []C37_NonNegative /\ [][C37_DebitStep]_vars

\* Two transactions of one user were pending together; the first settlement
\* took the whole balance and the second, confirmed on chain, was not debited.
C37_Witness ==
  /\ pc = "done"
  /\ \E u \in Users :
       /\ initialBalances[u] > 0
       /\ balances[u] = 0
       /\ Len(hist.debits) >= 1
       /\ \E i \in DOMAIN hist.settled :
            /\ hist.settled[i].userId = u
            /\ hist.settled[i].onChain
            /\ ~hist.settled[i].confirmed
            /\ hist.settled[i].amount > 0

\* ---------------------------------------------------------------- C38
\* C38: within a run no transaction id is recorded in more than one of the
\* approvals, declines and timeouts lists, nor more than once in any of them,
\* in either mode and with pre-authorization and fraud enabled or disabled.
C38_OneOutcomePerTransaction == NoDuplicates(approvals \o declines \o timeouts)

\* A finished wait-on-chain run with fraud enabled: one attempt auto-declined
\* at the fraud screen, another resolved by its settlement event.
C38_Witness ==
  /\ pc = "done"
  /\ spec.mode = "wait_on_chain"
  /\ spec.fraudEnabled
  /\ hist.autoDeclined = 1
  /\ Len(approvals \o declines \o timeouts) = 2
  /\ Len(hist.settled) = 1

\* ---------------------------------------------------------------- C39
\* C39: whenever simulateSettlement returns confirmed = true, its elapsed
\* time timeSec does not exceed spec.maxSettleWindowSec.
C39_ConfirmedWithinWindow ==
  (stl.pc = "returned" /\ stl.result.confirmed) =>
     stl.result.timeSec <= stl.stellar.maxSettleWindowSec

\* ---------------------------------------------------------------- C40
\* The run result simulateOnce returns (lines 598-647), from the run state.
RunResult ==
  [metrics |->
     [approvals |-> Len(approvals), declines |-> Len(declines),
      timeouts |-> Len(timeouts), overspendPrevented |-> ctr.overspendPrevented,
      fraudExposureTotal |-> ctr.fraudExposureTotal,
      fraudLossTotal |-> ctr.fraudLossTotal, limitDeclines |-> ctr.limitDeclines,
      totalSpent |-> ctr.totalSpent,
      insufficientFundsSkipped |-> ctr.insufficientFundsSkipped],
   settlementTimes |-> settlementTimes, authTimes |-> authTimes,
   exposureEvents |-> exposureEvents, retries |-> retries,
   exposureDurations |-> exposureDurations,
   pendingHoldSamples |-> pendingHoldSamples,
   preAuthMismatchCount |-> ctr.preAuthMismatchCount,
   preAuthCount |-> ctr.preAuthCount,
   incrementalAuthSuccessCount |-> ctr.incrementalAuthSuccessCount,
   incrementalAuthCount |-> ctr.incrementalAuthCount,
   fraudAttempts |-> ctr.fraudAttempts, fraudApprovals |-> ctr.fraudApprovals]

\* A rate n / d (a fraction <<n, d>>) lies in [0, 1].
C40_InUnitInterval(rate) == rate[2] > 0 /\ 0 <= rate[1] /\ rate[1] <= rate[2]

\* The two rates add up to 1.
C40_Complementary(a, b) == a[1] * b[2] + b[1] * a[2] = a[2] * b[2]

\* Run lists made of the finished run: alone, twice, and next to a run in
\* which nothing happened.
C40_RunLists ==
  {<<RunResult>>, <<RunResult, RunResult>>, <<EmptyRunResult, RunResult>>,
   <<RunResult, EmptyRunResult, RunResult>>}

\* What holds of the aggregate of a run list.
C40_AggregateHolds(runList) ==
  LET aggregated == aggregateRunResults(spec, runList)
  IN /\ Len(ConcatOver(runList, "settlementTimes")) <= aggregated.metrics.approvals
     /\ C40_InUnitInterval(aggregated.metrics.settlementSuccessRate)
     /\ C40_InUnitInterval(aggregated.metrics.settlementFailRate)
     /\ C40_Complementary(aggregated.metrics.settlementSuccessRate,
                          aggregated.metrics.settlementFailRate)

\* C40: in every run and in every aggregate the number of recorded
\* settlement-time samples is at most the number of approvals (the samples
\* are those of the confirmed settlements, one per transaction at most, each
\* of an approved transaction), so settlementSuccessRate lies in [0, 1] and
\* settlementFailRate = 1 - settlementSuccessRate lies in [0, 1].
C40_SettlementsWithinApprovals ==
  /\ Len(settlementTimes) <= Len(approvals)
  /\ Len(settlementTimes) = Len(SelectSeq(hist.settled, IsConfirmed))
  /\ \A i \in DOMAIN hist.settled :
        hist.settled[i].confirmed =>
           \E k \in DOMAIN approvals : approvals[k] = hist.settled[i].txnId
  /\ pc = "done" => \A runList \in C40_RunLists : C40_AggregateHolds(runList)

\* A finished run with two approvals of which one settled and one did not:
\* the aggregate success rate is strictly between 0 and 1.
C40_Witness ==
  /\ pc = "done"
  /\ Len(approvals) >= 2
  /\ Len(settlementTimes) >= 1
  /\ Len(settlementTimes) < Len(approvals)
  /\ aggregateRunResults(spec, <<RunResult, RunResult>>).metrics.settlementSuccessRate[1] > 0

====
